---- MODULE Spec2Model ----
(***************************************************************************)
(* Quiz-attempt lifecycle of the quiz application backend: QuizService's   *)
(* startQuizAttempt, submitQuizAttempt, addQuestion, scheduleQuiz and      *)
(* updateQuiz running as concurrent request handlers over the Prisma       *)
(* store.  Every await of a handler is a point where another handler may   *)
(* run, so each store call is one step of the handler that issues it.      *)
(***************************************************************************)
EXTENDS Integers, Sequences, FiniteSets, TLC

(* ------------------------------ bounds -------------------------------- *)
NumHandlers  == 2      \* request handlers that can be in flight together
MaxTime      == 2      \* the clock runs over 0..MaxTime
MaxQuestions == 1      \* rows of the question table
MaxAttempts  == 2      \* rows of the quizAttempt table
MaxPoints    == 2      \* points of a question range over 1..MaxPoints
MaxCalls     == 2      \* Start and Submit calls made in one behaviour
TickMs       == 90000  \* milliseconds that pass in one clock tick
MaxScoringQuestions == 2  \* questions of the quiz whose scoring is examined
MaxResultAttempts == 40   \* attempts of the quiz whose statistics are examined

(* ----------------------------- constants ------------------------------ *)
MsPerMinute  == 60000
MinPoints    == 1
MaxPointsAllowed == 10
NoTime       == -1

Handlers     == 1..NumHandlers
QuizIds      == {"quizA", "quizB"}
StudentIds   == {"stu1", "stu2"}
AttemptIds   == 1..MaxAttempts
AnswerValues == {"a"}
Undefined    == "undefined"
PayloadKeys  == {1}
ScheduleTimes == {1}
Durations    == {30}

(* ------------------------------- state -------------------------------- *)
VARIABLES
  quizzes,    \* quiz table: QuizIds -> row (exists = FALSE: no such row)
  questions,  \* question table, in insertion order; id = position
  attempts,   \* quizAttempt table, in insertion order; id = position
  snapshot,   \* history: per attempt, the question ids in the table when
              \* the quiz was read by Start and when the row was inserted
  clock,      \* wall clock, in ticks of TickMs milliseconds
  pc,         \* per handler: its position
  req,        \* per handler: the call's arguments
  loc,        \* per handler: the call's local variables
  resp,       \* per handler: the response of the call that ended last
  overlap,    \* history: the pairs of handlers whose current calls have
              \* been in flight at the same time
  calls,      \* history: the number of calls made so far
  probe,      \* the arguments and the result of a function applied on its own
  users,      \* user table: UserIds -> row (exists = FALSE: no such row)
  otps,       \* OTP table: PhoneNumbers -> row (exists = FALSE: no such row)
  institutions, \* institution table: InstitutionIds -> row
  tokens,     \* the ids of the users a token has been issued to by login
  verified    \* history: the phone numbers whose OTP has been verified
              \* since the OTP was last sent

vars == <<quizzes, questions, attempts, snapshot, clock, pc, req, loc, resp,
          overlap, calls, probe, users, otps, institutions, tokens, verified>>

(* --------------------------- HTTP outcomes ---------------------------- *)
\* ApiResponse: the status code each kind of outcome is sent with
StatusOk         == 200
StatusBadRequest == 400
StatusForbidden  == 403
StatusNotFound   == 404
StatusConflict   == 409
StatusTooManyRequests == 429

NoBody == [attemptId |-> 0]

\* errorHandler: a CustomError is answered with its own statusCode and message
errorHandler(statusCode, message) ==
  [status |-> statusCode, message |-> message, body |-> NoBody]

\* ApiResponse.success(res, data, message)
success(data, message) ==
  [status |-> StatusOk, message |-> message, body |-> data]

NoResponse == [status |-> 0, message |-> "", body |-> NoBody]

(* ------------------------------- rows --------------------------------- *)
\* a quiz row: institutionId is "null" for a quiz owned through its subject
\* only, and subjectInstitutionId is quiz.subject.grade.institution.id
NoQuiz == [id |-> "", exists |-> FALSE, startTime |-> NoTime,
           endTime |-> NoTime, durationMins |-> 0, institutionId |-> "null",
           subjectInstitutionId |-> "null", createdById |-> "",
           settings |-> [allowRetake |-> FALSE]]

NoAttempt == [id |-> 0, quizId |-> "", studentId |-> "", answers |-> <<>>,
              score |-> 0, maxScore |-> 0, completed |-> FALSE,
              startedAt |-> NoTime, submittedAt |-> NoTime,
              timeSpent |-> NoTime]

\* the request body's answers object: a key is absent when its value is
\* Undefined (answers[question.id] of an absent key is undefined)
Payloads == [PayloadKeys -> {"a", "A", Undefined}]
NoPayload == [q \in PayloadKeys |-> Undefined]

\* a call: its arguments, and as history its ordinal among the calls and what
\* the store held when it was made
NoRequest == [op |-> "", quizId |-> "", studentId |-> "", attemptId |-> 0,
              answers |-> NoPayload, seq |-> 0, activeAtCall |-> FALSE,
              completedAtCall |-> FALSE]

NoLocals == [quiz |-> NoQuiz, questions |-> <<>>, now |-> NoTime,
             existingAttempt |-> FALSE, maxScore |-> 0, startedAt |-> NoTime,
             attempt |-> NoAttempt, score |-> 0, questionAnswers |-> <<>>,
             timeSpent |-> NoTime, submittedAt |-> NoTime]

\* no function is being applied on its own
NoProbe == [fn |-> ""]

\* a user row
UserIds == {"u1", "u2"}
PhoneNumbers == {"p1", "p2"}
NoUser == [id |-> "", exists |-> FALSE, phoneNumber |-> "", name |-> "",
           role |-> "", institutionId |-> "null", approved |-> FALSE,
           password |-> ""]

\* an OTP row, kept under its unique phoneNumber
NoOtp == [exists |-> FALSE, code |-> "", expiresAt |-> NoTime]

\* the empty user, OTP and institution tables
NoUsers == [u \in UserIds |-> NoUser]
NoOtps == [p \in PhoneNumbers |-> NoOtp]
NoInstitutions ==
  [i \in {"inst1", "inst2"} |->
     [id |-> "", exists |-> FALSE, name |-> "", approved |-> FALSE,
      adminId |-> ""]]

(* ------------------------------ helpers ------------------------------- *)
\* include: { questions: true }: the rows of the question table of a quiz
QuestionsOf(quizId) == SelectSeq(questions, LAMBDA q : q.quizId = quizId)

\* prisma.quiz.findUnique({ where: { id } }): the row, or null
findUniqueQuiz(quizId) ==
  IF quizzes[quizId].exists THEN quizzes[quizId] ELSE NoQuiz

\* prisma.quizAttempt.findUnique({ where: { id } }): the row, or null
findUniqueAttempt(attemptId) ==
  IF attemptId \in 1..Len(attempts) THEN attempts[attemptId] ELSE NoAttempt

\* the read without its completed: false
findFirstActiveAttempt_anyAttempt(quizId, studentId) ==
  \E i \in 1..Len(attempts) :
     /\ attempts[i].quizId = quizId
     /\ attempts[i].studentId = studentId

\* prisma.quizAttempt.findFirst({ where: { quizId, studentId, completed: false } })
findFirstActiveAttempt(quizId, studentId) ==
  \E i \in 1..Len(attempts) :
     /\ attempts[i].quizId = quizId
     /\ attempts[i].studentId = studentId
     /\ attempts[i].completed = FALSE

\* the window check with its bounds made exclusive
QuizNotActive_exclusive(now, quiz) == now <= quiz.startTime \/ now >= quiz.endTime

\* now < quiz.startTime || now > quiz.endTime
QuizNotActive(now, quiz) == now < quiz.startTime \/ now > quiz.endTime

\* the reduce counting the questions instead of adding their points
reducePoints_count(qs) == Len(qs)

\* quiz.questions.reduce((sum, q) => sum + q.points, 0)
RECURSIVE reducePoints(_)
reducePoints(qs) ==
  IF qs = <<>> THEN 0 ELSE qs[1].points + reducePoints(Tail(qs))

\* answers[question.id]: undefined when the body has no such key
answerAt(answers, id) == IF id \in DOMAIN answers THEN answers[id] ELSE Undefined

\* the comparison of the scoring loop made blind to letter case
PointsFor_ignoreCase(question, studentAnswer) ==
  IF (IF studentAnswer = "A" THEN "a" ELSE studentAnswer) = question.answer
  THEN question.points ELSE 0

\* what the scoring loop adds for one question
PointsFor(question, studentAnswer) ==
  IF studentAnswer = question.answer THEN question.points ELSE 0

\* the scoring loop of submitQuizAttempt: the score
RECURSIVE scoreLoop(_, _)
scoreLoop(qs, answers) ==
  IF qs = <<>> THEN 0
  ELSE PointsFor(qs[1], answerAt(answers, qs[1].id)) + scoreLoop(Tail(qs), answers)

\* the scoring loop of submitQuizAttempt: questionAnswers
questionAnswersOf(qs, answers) ==
  [id \in {qs[i].id : i \in 1..Len(qs)} |-> answerAt(answers, id)]

\* Math.floor((Date.now() - attempt.startedAt.getTime()) / (1000 * 60))
timeSpentOf(now, startedAt) == ((now - startedAt) * TickMs) \div MsPerMinute

(* JavaScript numbers are IEEE 754 doubles: a significand of 53 bits, and  *)
(* every operation rounded to the nearest double, ties to the even one.    *)
(* A positive double is [limbs, exp]: its significand as digits of         *)
(* LimbBits bits, the least significant first, and the power of two that   *)
(* scales it.  The significand of a quotient is a leading 1 and            *)
(* FractionLimbs digits.                                                   *)
LimbBits      == 13
FractionLimbs == 4

RECURSIVE pow2(_)
pow2(k) == IF k = 0 THEN 1 ELSE 2 * pow2(k - 1)

LimbBase == pow2(LimbBits)

\* the digit at position i (from 0), 0 beyond the most significant one
limbAt(limbs, i) == IF i + 1 \in DOMAIN limbs THEN limbs[i + 1] ELSE 0

\* the bit at position k (from 0) of the significand
bitAt(limbs, k) == (limbAt(limbs, k \div LimbBits) \div pow2(k % LimbBits)) % 2

\* every digit times m, plus the carry
RECURSIVE timesSmall(_, _, _)
timesSmall(limbs, m, carry) ==
  IF limbs = <<>> THEN (IF carry = 0 THEN <<>> ELSE <<carry>>)
  ELSE LET v == limbs[1] * m + carry
       IN  IF Len(limbs) = 1 THEN <<v>>
           ELSE <<v % LimbBase>> \o timesSmall(Tail(limbs), m, v \div LimbBase)

\* the significand plus v; the most significant digit takes the overflow
RECURSIVE plusSmall(_, _)
plusSmall(limbs, v) ==
  IF Len(limbs) = 1 THEN <<limbs[1] + v>>
  ELSE LET w == limbs[1] + v
       IN  <<w % LimbBase>> \o plusSmall(Tail(limbs), w \div LimbBase)

\* the first count digits of the binary fraction r / n (r < n), the most
\* significant first, and what is left of r after them
RECURSIVE quotientLimbs(_, _, _)
quotientLimbs(r, n, count) ==
  IF count = 0 THEN <<>>
  ELSE <<(r * LimbBase) \div n>>
         \o quotientLimbs((r * LimbBase) % n, n, count - 1)

RECURSIVE quotientRem(_, _, _)
quotientRem(r, n, count) ==
  IF count = 0 THEN r ELSE quotientRem((r * LimbBase) % n, n, count - 1)

\* the least a with c * 2^a >= n
RECURSIVE scaleUp(_, _)
scaleUp(c, n) == IF c >= n THEN 0 ELSE 1 + scaleUp(2 * c, n)

\* the greatest b with n * 2^b <= c
RECURSIVE scaleDown(_, _)
scaleDown(c, n) == IF 2 * n > c THEN 0 ELSE 1 + scaleDown(c, 2 * n)

\* the number of bits of v > 0
RECURSIVE bitLength(_)
bitLength(v) == IF v = 0 THEN 0 ELSE 1 + bitLength(v \div 2)

Reverse(s) == [i \in 1..Len(s) |-> s[Len(s) + 1 - i]]

\* c / n for integers c > 0 and n > 0: the quotient's leading 1 and its next
\* FractionLimbs digits, rounded on what the division leaves
doubleDivide(c, n) ==
  LET a     == scaleUp(c, n)
      b     == scaleDown(c, n)
      cs    == c * pow2(a)
      ns    == n * pow2(b)
      limbs == Reverse(<<1>> \o quotientLimbs(cs - ns, ns, FractionLimbs))
      rem   == quotientRem(cs - ns, ns, FractionLimbs)
      up    == 2 * rem > ns \/ (2 * rem = ns /\ limbs[1] % 2 = 1)
  IN  [limbs |-> IF up THEN plusSmall(limbs, 1) ELSE limbs,
       exp   |-> b - a - FractionLimbs * LimbBits]

\* x * 100 for a double x > 0: the exact product, and then its bits below
\* the 53 most significant rounded away (they are all in the lowest digit)
timesHundred(x) ==
  LET product == timesSmall(x.limbs, 100, 0)
      d       == bitLength(product[Len(product)]) - 1
      dropped == product[1] % pow2(d)
      kept    == [product EXCEPT ![1] = @ - dropped]
      up      == \/ 2 * dropped > pow2(d)
                 \/ 2 * dropped = pow2(d) /\ bitAt(product, d) = 1
  IN  [limbs |-> IF up THEN plusSmall(kept, pow2(d)) ELSE kept, exp |-> x.exp]

\* the significand without its t lowest bits
RECURSIVE shiftedRight(_, _, _)
shiftedRight(limbs, t, i) ==
  IF i >= Len(limbs) THEN 0
  ELSE LET k == i * LimbBits
       IN  (IF k + LimbBits <= t THEN 0
            ELSE IF k >= t THEN limbs[i + 1] * pow2(k - t)
            ELSE limbs[i + 1] \div pow2(t - k))
           + shiftedRight(limbs, t, i + 1)

\* Math.round(x) for a double x > 0 below 2^52, which has -x.exp bits after
\* the binary point: the integer part, plus one when the first bit after
\* the point is set
MathRound(x) ==
  LET t == -x.exp
  IN  shiftedRight(x.limbs, t, 0) + bitAt(x.limbs, t - 1)

\* Math.round((c / n) * 100) for integers c >= 0 and n > 0
roundedPercent(c, n) ==
  IF c = 0 THEN 0 ELSE MathRound(timesHundred(doubleDivide(c, n)))

\* Math.round((score / maxScore) * 100); 0/0 is NaN, x/0 is Infinity
percentageOf(score, maxScore) ==
  IF maxScore = 0
  THEN IF score = 0 THEN [kind |-> "NaN", value |-> 0]
                    ELSE [kind |-> "Infinity", value |-> 0]
  ELSE [kind |-> "number", value |-> roundedPercent(score, maxScore)]

\* the question passed on as the store returned it
questionView_withAnswer(q) == q

\* the student-facing question of startQuizAttempt's return value
questionView(q) ==
  [id |-> q.id, text |-> q.text, options |-> q.options,
   difficulty |-> q.difficulty, points |-> q.points]

\* the quiz object of startQuizAttempt's return value
quizView(quiz, qs) ==
  [id |-> quiz.id, durationMins |-> quiz.durationMins,
   startTime |-> quiz.startTime, endTime |-> quiz.endTime,
   questions |-> [i \in 1..Len(qs) |-> questionView(qs[i])]]

InFlight(h) == pc[h] \notin {"idle", "done"}

\* the ids of the questions a quiz has in the table now
QuestionIdsOf(quizId) ==
  {questions[i].id : i \in {j \in 1..Len(questions) : questions[j].quizId = quizId}}

\* the row prisma.quizAttempt.create inserts
newAttempt(id, quizId, studentId, maxScore, startedAt) ==
  [id |-> id, quizId |-> quizId, studentId |-> studentId, answers |-> <<>>,
   score |-> 0, maxScore |-> maxScore, completed |-> FALSE,
   startedAt |-> startedAt, submittedAt |-> NoTime, timeSpent |-> NoTime]

(* ----------------------------- AuthUtils ------------------------------- *)
InstitutionIds == {"inst1", "inst2"}

\* the institutionId of a user that belongs to no institution
NoInstitution == "null"

\* the global roles left out of the institutions they can access
canAccessInstitution_noGlobalCreator(user, institutionId) ==
  IF user.role = "SUPER_ADMIN" THEN TRUE
  ELSE user.institutionId = institutionId

\* AuthUtils.canAccessInstitution(user, institutionId)
canAccessInstitution(user, institutionId) ==
  IF user.role = "SUPER_ADMIN" \/ user.role = "GLOBAL_CONTENT_CREATOR" THEN TRUE
  ELSE user.institutionId = institutionId

\* an ADMIN of another institution judged by the TEACHER rule without its
\* institution test
canManageUsers_adminFallsBack(user, targetUser) ==
  IF user.role = "SUPER_ADMIN" THEN TRUE
  ELSE IF user.role = "GLOBAL_CONTENT_CREATOR"
  THEN targetUser.role \in {"GLOBAL_CONTENT_CREATOR", "ADMIN", "TEACHER", "STUDENT"}
  ELSE IF user.role = "ADMIN" /\ user.institutionId = targetUser.institutionId
  THEN targetUser.role \in {"ADMIN", "TEACHER", "STUDENT"}
  ELSE IF user.role \in {"ADMIN", "TEACHER"}
  THEN targetUser.role = "STUDENT"
  ELSE FALSE

\* the ADMIN rule without its test of the target's role
canManageUsers_adminAnyRole(user, targetUser) ==
  IF user.role = "SUPER_ADMIN" THEN TRUE
  ELSE IF user.role = "GLOBAL_CONTENT_CREATOR"
  THEN targetUser.role \in {"GLOBAL_CONTENT_CREATOR", "ADMIN", "TEACHER", "STUDENT"}
  ELSE IF user.role = "ADMIN" /\ user.institutionId = targetUser.institutionId
  THEN TRUE
  ELSE IF user.role = "TEACHER" /\ user.institutionId = targetUser.institutionId
  THEN targetUser.role = "STUDENT"
  ELSE FALSE

\* AuthUtils.canManageUsers(user, targetUser): the four ifs in the code's order
canManageUsers(user, targetUser) ==
  IF user.role = "SUPER_ADMIN" THEN TRUE
  ELSE IF user.role = "GLOBAL_CONTENT_CREATOR"
  THEN targetUser.role \in {"GLOBAL_CONTENT_CREATOR", "ADMIN", "TEACHER", "STUDENT"}
  ELSE IF user.role = "ADMIN" /\ user.institutionId = targetUser.institutionId
  THEN targetUser.role \in {"ADMIN", "TEACHER", "STUDENT"}
  ELSE IF user.role = "TEACHER" /\ user.institutionId = targetUser.institutionId
  THEN targetUser.role = "STUDENT"
  ELSE FALSE

\* AuthUtils.canCreateQuiz(user)
canCreateQuiz(user) ==
  user.role \in {"SUPER_ADMIN", "GLOBAL_CONTENT_CREATOR", "ADMIN", "TEACHER"}

\* teachers let through as well
canTakeQuiz_teachersToo(user) == user.role \in {"STUDENT", "TEACHER"}

\* AuthUtils.canTakeQuiz(user)
canTakeQuiz(user) == user.role = "STUDENT"

\* the institution rule applied to every role below the global ones
canViewResults_anyInstitutionMember(user, quizAttempt) ==
  IF user.id = quizAttempt.studentId THEN TRUE
  ELSE IF user.role \in {"ADMIN", "TEACHER", "STUDENT"}
  THEN user.institutionId = quizAttempt.institutionId
  ELSE user.role \in {"SUPER_ADMIN", "GLOBAL_CONTENT_CREATOR"}

\* AuthUtils.canViewResults(user, quizAttempt)
canViewResults(user, quizAttempt) ==
  IF user.id = quizAttempt.studentId THEN TRUE
  ELSE IF user.role \in {"ADMIN", "TEACHER"}
  THEN user.institutionId = quizAttempt.institutionId
  ELSE IF user.role \in {"SUPER_ADMIN", "GLOBAL_CONTENT_CREATOR"} THEN TRUE
  ELSE FALSE

(* ------------------------------- Init --------------------------------- *)
\* the quiz of the store: created with startTime in the future and endTime
\* after it (validationSchemas.quizCreate); the other id names no quiz
InitQuizzes ==
  [z \in QuizIds |->
     IF z = "quizA"
     THEN [id |-> z, exists |-> TRUE, startTime |-> 1, endTime |-> 2,
           durationMins |-> 30, institutionId |-> "inst1",
           subjectInstitutionId |-> "inst1", createdById |-> "tea1",
           settings |-> [allowRetake |-> FALSE]]
     ELSE NoQuiz]

\* the store when the handlers start serving: the quiz has no question yet,
\* and either nobody has started it (time 0, before its window), or student
\* stu1 has started it at time 1 and not submitted
Init ==
  /\ quizzes = InitQuizzes
  /\ questions = <<>>
  /\ \/ /\ attempts = <<>>
        /\ snapshot = <<>>
        /\ clock = 0
     \/ /\ attempts = <<newAttempt(1, "quizA", "stu1", 0, 1)>>
        /\ snapshot = <<[loaded |-> {}, inserted |-> {}]>>
        /\ clock = 1
  /\ pc = [h \in Handlers |-> "idle"]
  /\ req = [h \in Handlers |-> NoRequest]
  /\ loc = [h \in Handlers |-> NoLocals]
  /\ resp = [h \in Handlers |-> NoResponse]
  /\ overlap = {}
  /\ calls = 0
  /\ users = NoUsers /\ otps = NoOtps /\ institutions = NoInstitutions
  /\ tokens = {} /\ verified = {}
  /\ probe = NoProbe

(* ------------------------- startQuizAttempt --------------------------- *)
\* a call of handler h begins: it overlaps the calls now in flight, and no
\* longer the calls h overlapped before
OverlapAtCall(h) ==
  {pr \in overlap : h \notin pr} \cup {{h, g} : g \in {k \in Handlers : InFlight(k)}}

\* the call of handler h ends with a response; its locals die with it
Return(h, call, response) ==
  /\ req' = [req EXCEPT ![h] = [call EXCEPT !.answers = NoPayload]]
  /\ resp' = [resp EXCEPT ![h] = response]
  /\ loc' = [loc EXCEPT ![h] = NoLocals]
  /\ pc' = [pc EXCEPT ![h] = "done"]

\* throw new CustomError('Quiz not found', 404)
QuizNotFoundError == errorHandler(StatusNotFound, "Quiz not found")

\* throw new CustomError('Quiz is not currently active', 400)
QuizNotActiveError == errorHandler(StatusBadRequest, "Quiz is not currently active")

\* throw new CustomError('You already have an active attempt for this quiz', 400)
ActiveAttemptError ==
  errorHandler(StatusBadRequest, "You already have an active attempt for this quiz")

\* the checks of startQuizAttempt on the quiz it read: the error thrown, or
\* NoResponse when both pass
startChecks(quiz, now) ==
  IF ~quiz.exists THEN QuizNotFoundError
  ELSE IF QuizNotActive(now, quiz) THEN QuizNotActiveError
  ELSE NoResponse

\* startQuizAttempt up to its second await: read the quiz with its
\* questions, reject a missing quiz, read the time, reject a closed window
startQuizAttempt_findQuiz(h, quizId, studentId) ==
  /\ pc[h] \in {"idle", "done"}
  /\ calls < MaxCalls
  /\ LET quiz == findUniqueQuiz(quizId)
         now  == clock
         check == startChecks(quiz, now)
         call == [op |-> "start", quizId |-> quizId, studentId |-> studentId,
                  attemptId |-> 0, answers |-> NoPayload, seq |-> calls + 1,
                  activeAtCall |-> findFirstActiveAttempt(quizId, studentId),
                  completedAtCall |-> FALSE]
     IN  IF check # NoResponse
         THEN Return(h, call, check)
         ELSE /\ req' = [req EXCEPT ![h] = call]
              /\ resp' = [resp EXCEPT ![h] = NoResponse]
              /\ loc' = [loc EXCEPT ![h] =
                           [NoLocals EXCEPT !.quiz = quiz,
                              !.questions = QuestionsOf(quizId),
                              !.now = now]]
              /\ pc' = [pc EXCEPT ![h] = "start_findExisting"]
  /\ overlap' = OverlapAtCall(h)
  /\ calls' = calls + 1
  /\ UNCHANGED <<quizzes, questions, attempts, snapshot, clock>>
  /\ UNCHANGED <<probe, users, otps, institutions, tokens, verified>>

\* startQuizAttempt from the read of an active attempt to the insert it
\* issues: reject when one exists, else compute maxScore and startedAt
startQuizAttempt_findExisting(h) ==
  /\ pc[h] = "start_findExisting"
  /\ LET existingAttempt == findFirstActiveAttempt(req[h].quizId, req[h].studentId)
     IN  IF existingAttempt
         THEN Return(h, req[h], ActiveAttemptError)
         ELSE /\ loc' = [loc EXCEPT ![h].maxScore = reducePoints(loc[h].questions),
                                    ![h].startedAt = clock]
              /\ pc' = [pc EXCEPT ![h] = "start_create"]
              /\ UNCHANGED <<req, resp>>
  /\ UNCHANGED <<quizzes, questions, attempts, snapshot, clock, overlap, calls>>
  /\ UNCHANGED <<probe, users, otps, institutions, tokens, verified>>

\* startQuizAttempt from the insert to its return value
startQuizAttempt_create(h) ==
  /\ pc[h] = "start_create"
  /\ Len(attempts) < MaxAttempts
  /\ LET attempt == newAttempt(Len(attempts) + 1, req[h].quizId,
                               req[h].studentId, loc[h].maxScore,
                               loc[h].startedAt)
     IN  /\ attempts' = Append(attempts, attempt)
         /\ snapshot' = Append(snapshot,
               [loaded   |-> {loc[h].questions[i].id : i \in 1..Len(loc[h].questions)},
                inserted |-> QuestionIdsOf(req[h].quizId)])
         /\ Return(h, req[h],
               success([attemptId |-> attempt.id,
                        quiz |-> quizView(loc[h].quiz, loc[h].questions)],
                       "Quiz attempt started successfully"))
  /\ UNCHANGED <<quizzes, questions, clock, overlap, calls>>
  /\ UNCHANGED <<probe, users, otps, institutions, tokens, verified>>

(* ------------------------- submitQuizAttempt -------------------------- *)
\* throw new CustomError('Quiz attempt not found', 404)
AttemptNotFoundError == errorHandler(StatusNotFound, "Quiz attempt not found")

\* throw new CustomError('Unauthorized access to quiz attempt', 403)
NotOwnerError == errorHandler(StatusForbidden, "Unauthorized access to quiz attempt")

\* throw new CustomError('Quiz attempt already completed', 400)
AlreadyCompletedError ==
  errorHandler(StatusBadRequest, "Quiz attempt already completed")

\* the checks with the completed check moved before the ownership check
submitChecks_completedFirst(attempt, studentId) ==
  IF attempt.id = 0 THEN AttemptNotFoundError
  ELSE IF attempt.completed THEN AlreadyCompletedError
  ELSE IF attempt.studentId # studentId THEN NotOwnerError
  ELSE NoResponse

\* the three checks of submitQuizAttempt on the attempt it read, in the
\* code's order: the error thrown, or NoResponse when all pass
submitChecks(attempt, studentId) ==
  IF attempt.id = 0 THEN AttemptNotFoundError
  ELSE IF attempt.studentId # studentId THEN NotOwnerError
  ELSE IF attempt.completed THEN AlreadyCompletedError
  ELSE NoResponse

\* submitQuizAttempt up to its second await: read the attempt with its
\* quiz's questions, run the three checks, score, and build the update
submitQuizAttempt_findAttempt(h, attemptId, answers, studentId) ==
  /\ pc[h] \in {"idle", "done"}
  /\ calls < MaxCalls
  /\ LET attempt == findUniqueAttempt(attemptId)
         qs      == QuestionsOf(attempt.quizId)
         call    == [op |-> "submit", quizId |-> "", studentId |-> studentId,
                     attemptId |-> attemptId, answers |-> NoPayload,
                     seq |-> calls + 1, activeAtCall |-> FALSE,
                     completedAtCall |-> attempt.completed]
         check   == submitChecks(attempt, studentId)
     IN  IF check # NoResponse
         THEN Return(h, call, check)
         ELSE /\ req' = [req EXCEPT ![h] = [call EXCEPT !.answers = answers]]
              /\ resp' = [resp EXCEPT ![h] = NoResponse]
              /\ loc' = [loc EXCEPT ![h] =
                           [NoLocals EXCEPT !.attempt = attempt,
                              !.questions = qs,
                              !.score = scoreLoop(qs, answers),
                              !.questionAnswers = questionAnswersOf(qs, answers),
                              !.timeSpent = timeSpentOf(clock, attempt.startedAt),
                              !.submittedAt = clock]]
              /\ pc' = [pc EXCEPT ![h] = "submit_update"]
  /\ overlap' = OverlapAtCall(h)
  /\ calls' = calls + 1
  /\ UNCHANGED <<quizzes, questions, attempts, snapshot, clock>>
  /\ UNCHANGED <<probe, users, otps, institutions, tokens, verified>>

\* the update writing startedAt as well
updatedAttempt_restarted(row, data) ==
  [row EXCEPT !.answers = data.questionAnswers, !.score = data.score,
              !.completed = TRUE, !.submittedAt = data.submittedAt,
              !.timeSpent = data.timeSpent, !.startedAt = data.submittedAt]

\* the row prisma.quizAttempt.update({ where: { id }, data }) leaves
updatedAttempt(row, data) ==
  [row EXCEPT !.answers = data.questionAnswers, !.score = data.score,
              !.completed = TRUE, !.submittedAt = data.submittedAt,
              !.timeSpent = data.timeSpent]

\* submitQuizAttempt from the update to its return value
submitQuizAttempt_update(h) ==
  /\ pc[h] = "submit_update"
  /\ LET id      == req[h].attemptId
         updated == updatedAttempt(attempts[id], loc[h])
     IN  /\ attempts' = [attempts EXCEPT ![id] = updated]
         /\ Return(h, req[h],
               success([attemptId |-> updated.id,
                        score |-> updated.score,
                        maxScore |-> updated.maxScore,
                        percentage |-> percentageOf(updated.score,
                                                    updated.maxScore),
                        timeSpent |-> updated.timeSpent,
                        completed |-> updated.completed],
                       "Quiz submitted successfully"))
  /\ UNCHANGED <<quizzes, questions, snapshot, clock, overlap, calls>>
  /\ UNCHANGED <<probe, users, otps, institutions, tokens, verified>>

(* ----------------------- quiz management calls ------------------------ *)
\* the row prisma.question.create inserts (validationSchemas.questionCreate)
newQuestion(id, quizId, answer, points) ==
  [id |-> id, quizId |-> quizId, text |-> "What is it?",
   options |-> <<"a", "b">>, answer |-> answer, difficulty |-> "easy",
   points |-> points]

\* addQuestion: validates the body, requires the quiz (else 404, nothing
\* written) and inserts the question
addQuestion(quizId, answer, points) ==
  /\ Len(questions) < MaxQuestions
  /\ points \in MinPoints..MaxPointsAllowed
  /\ findUniqueQuiz(quizId).exists
  /\ questions' = Append(questions,
                     newQuestion(Len(questions) + 1, quizId, answer, points))
  /\ UNCHANGED <<quizzes, attempts, snapshot, clock, pc, req, loc, resp,
                 overlap, calls>>
  /\ UNCHANGED <<probe, users, otps, institutions, tokens, verified>>

\* scheduleQuiz: prisma.quiz.update of startTime, endTime and durationMins
\* (a missing quiz: the update throws, nothing written)
scheduleQuiz(quizId, startTime, endTime, durationMins) ==
  /\ quizzes[quizId].exists
  /\ quizzes' = [quizzes EXCEPT ![quizId].startTime = startTime,
                                ![quizId].endTime = endTime,
                                ![quizId].durationMins = durationMins]
  /\ UNCHANGED <<questions, attempts, snapshot, clock, pc, req, loc, resp,
                 overlap, calls>>
  /\ UNCHANGED <<probe, users, otps, institutions, tokens, verified>>

\* updateQuiz: prisma.quiz.update of the IQuizUpdate fields the body carries
\* (NoTime: the field is absent from the body; a missing quiz: the update
\* throws, nothing written)
updateQuiz(quizId, startTime, endTime, durationMins) ==
  /\ quizzes[quizId].exists
  /\ quizzes' = [quizzes EXCEPT
                   ![quizId].startTime = IF startTime = NoTime THEN @ ELSE startTime,
                   ![quizId].endTime = IF endTime = NoTime THEN @ ELSE endTime,
                   ![quizId].durationMins =
                       IF durationMins = NoTime THEN @ ELSE durationMins]
  /\ UNCHANGED <<questions, attempts, snapshot, clock, pc, req, loc, resp,
                 overlap, calls>>
  /\ UNCHANGED <<probe, users, otps, institutions, tokens, verified>>

(* --------------------------- getQuizResults --------------------------- *)
\* quiz.attempts.reduce((sum, a) => sum + a.score, 0)
RECURSIVE reduceScores(_)
reduceScores(as) ==
  IF as = <<>> THEN 0
  ELSE IF Len(as) = 1 THEN as[1].score
  ELSE LET m == Len(as) \div 2
       IN  reduceScores(SubSeq(as, 1, m)) + reduceScores(SubSeq(as, m + 1, Len(as)))

\* Math.round(sum / length) for integers sum >= 0 and length > 0
roundedMean(sum, length) ==
  IF sum = 0 THEN 0 ELSE MathRound(doubleDivide(sum, length))

\* the statistics object of getQuizResults
statisticsOf(as) ==
  [totalAttempts  |-> Len(as),
   averageScore   |-> IF Len(as) > 0
                      THEN roundedMean(reduceScores(as), Len(as)) ELSE 0,
   completionRate |-> IF Len(as) > 0
                      THEN roundedPercent(Len(SelectSeq(as, LAMBDA a : a.completed)),
                                          Len(as))
                      ELSE 0]

\* include: { attempts }: the rows of the quizAttempt table of a quiz
AttemptsOf(quizId) == SelectSeq(attempts, LAMBDA a : a.quizId = quizId)

\* QuizService.getQuizResults(quizId, userId, userRole): the response
getQuizResults(quizId, userId, userRole) ==
  LET quiz       == findUniqueQuiz(quizId)
      as         == AttemptsOf(quizId)
      canViewAll == userRole \in {"SUPER_ADMIN", "GLOBAL_CONTENT_CREATOR",
                                  "ADMIN", "TEACHER"}
      isCreator  == quiz.createdById = userId
      own        == SelectSeq(as, LAMBDA a : a.studentId = userId)
  IN  IF ~quiz.exists THEN QuizNotFoundError
      ELSE IF ~canViewAll /\ ~isCreator
      THEN IF own = <<>>
           THEN errorHandler(StatusNotFound, "No attempt found for this quiz")
           ELSE success([quiz |-> [id |-> quiz.id], attempts |-> <<own[1]>>],
                        "Quiz results retrieved successfully")
      ELSE success([quiz |-> [id |-> quiz.id,
                              totalQuestions |-> Len(QuestionsOf(quizId)),
                              totalPoints |-> reducePoints(QuestionsOf(quizId))],
                    attempts |-> as,
                    statistics |-> statisticsOf(as)],
                   "Quiz results retrieved successfully")

\* time passes
Tick ==
  /\ clock < MaxTime
  /\ clock' = clock + 1
  /\ UNCHANGED <<quizzes, questions, attempts, snapshot, pc, req, loc, resp, overlap, calls>>
  /\ UNCHANGED <<probe, users, otps, institutions, tokens, verified>>

(* --------------------------- specification ---------------------------- *)
Next ==
  \/ \E h \in Handlers, z \in QuizIds, s \in StudentIds :
        startQuizAttempt_findQuiz(h, z, s)
  \/ \E h \in Handlers : startQuizAttempt_findExisting(h)
  \/ \E h \in Handlers : startQuizAttempt_create(h)
  \/ \E h \in Handlers, a \in AttemptIds, ans \in Payloads, s \in StudentIds :
        submitQuizAttempt_findAttempt(h, a, ans, s)
  \/ \E h \in Handlers : submitQuizAttempt_update(h)
  \/ \E z \in QuizIds, ans \in AnswerValues, p \in MinPoints..MaxPoints :
        addQuestion(z, ans, p)
  \/ \E z \in QuizIds, st \in ScheduleTimes, et \in ScheduleTimes, d \in Durations :
        scheduleQuiz(z, st, et, d)
  \/ \E z \in QuizIds, st \in ScheduleTimes \cup {NoTime},
          et \in ScheduleTimes \cup {NoTime}, d \in Durations \cup {NoTime} :
        updateQuiz(z, st, et, d)
  \/ Tick

Spec == Init /\ [][Next]_vars

(* ----------------------- scoring specification ------------------------ *)
\* A quiz with up to MaxScoringQuestions questions that student stu1 has
\* started, and the student's Submit calls on that attempt, one at a time,
\* with any answers object over the question ids and one id more.  The
\* question table is any list of up to MaxScoringQuestions questions that
\* addQuestion can have inserted.
InitScoring ==
  /\ quizzes = InitQuizzes
  /\ questions \in
       UNION {{[i \in 1..n |-> newQuestion(i, "quizA", f[i][1], f[i][2])] :
                 f \in [1..n -> {"a", "b"} \X (MinPoints..MaxPoints)]} :
              n \in 0..MaxScoringQuestions}
  /\ attempts = <<newAttempt(1, "quizA", "stu1", reducePoints(questions), 1)>>
  /\ snapshot = <<[loaded |-> 1..Len(questions), inserted |-> 1..Len(questions)]>>
  /\ clock = 1
  /\ pc = [h \in Handlers |-> "idle"]
  /\ req = [h \in Handlers |-> NoRequest]
  /\ loc = [h \in Handlers |-> NoLocals]
  /\ resp = [h \in Handlers |-> NoResponse]
  /\ overlap = {}
  /\ calls = 0
  /\ users = NoUsers /\ otps = NoOtps /\ institutions = NoInstitutions
  /\ tokens = {} /\ verified = {}
  /\ probe = NoProbe

NextScoring ==
  \/ \E h \in Handlers,
        ans \in [1..(MaxScoringQuestions + 1) -> {"a", "A", Undefined}] :
        /\ \A g \in Handlers : ~InFlight(g)
        /\ submitQuizAttempt_findAttempt(h, Len(attempts), ans, "stu1")
  \/ \E h \in Handlers : submitQuizAttempt_update(h)

SpecScoring == InitScoring /\ [][NextScoring]_vars

(* ---------------------- AuthUtils specification ----------------------- *)
\* The access functions of AuthUtils applied to every user, target user,
\* institution and attempt.
InitAuthUtils ==
  /\ quizzes = InitQuizzes
  /\ questions = <<>>
  /\ attempts = <<>>
  /\ snapshot = <<>>
  /\ clock = 0
  /\ pc = [h \in Handlers |-> "idle"]
  /\ req = [h \in Handlers |-> NoRequest]
  /\ loc = [h \in Handlers |-> NoLocals]
  /\ resp = [h \in Handlers |-> NoResponse]
  /\ overlap = {}
  /\ calls = 0
  /\ users = NoUsers /\ otps = NoOtps /\ institutions = NoInstitutions
  /\ tokens = {} /\ verified = {}
  /\ probe \in [fn : {""},
                user : [id : StudentIds,
                        role : {"SUPER_ADMIN", "GLOBAL_CONTENT_CREATOR",
                                "ADMIN", "TEACHER", "STUDENT"},
                        institutionId : InstitutionIds \cup {NoInstitution}],
                targetUser : [id : StudentIds,
                              role : {"SUPER_ADMIN", "GLOBAL_CONTENT_CREATOR",
                                      "ADMIN", "TEACHER", "STUDENT"},
                              institutionId : InstitutionIds \cup {NoInstitution}],
                institutionId : InstitutionIds,
                quizAttempt : [studentId : StudentIds,
                               institutionId : InstitutionIds \cup {NoInstitution}],
                result : {FALSE}]

\* the function named fn returns result
Returns(fn, result) ==
  /\ probe.fn = ""
  /\ probe' = [probe EXCEPT !.fn = fn, !.result = result]
  /\ UNCHANGED <<quizzes, questions, attempts, snapshot, clock, pc, req, loc,
                 resp, overlap, calls, users, otps, institutions, tokens, verified>>

NextAuthUtils ==
  \/ Returns("canAccessInstitution",
             canAccessInstitution(probe.user, probe.institutionId))
  \/ Returns("canManageUsers", canManageUsers(probe.user, probe.targetUser))
  \/ Returns("canCreateQuiz", canCreateQuiz(probe.user))
  \/ Returns("canTakeQuiz", canTakeQuiz(probe.user))
  \/ Returns("canViewResults",
             canViewResults(probe.user, probe.quizAttempt))

SpecAuthUtils == InitAuthUtils /\ [][NextAuthUtils]_vars

(* ---------------------- statistics specification ---------------------- *)
\* The statistics of getQuizResults applied to the attempts of a quiz: n
\* attempts of which the first c are completed, each with score sc.
ResultAttempts(n, c, sc) ==
  [i \in 1..n |->
     IF i <= c
     THEN updatedAttempt(newAttempt(i, "quizA", "stu1", MaxPoints, 1),
                         [questionAnswers |-> <<>>, score |-> sc,
                          submittedAt |-> 1, timeSpent |-> 0])
     ELSE newAttempt(i, "quizA", "stu1", MaxPoints, 1)]

InitStatistics ==
  /\ quizzes = InitQuizzes
  /\ questions = <<>>
  /\ attempts = <<>>
  /\ snapshot = <<>>
  /\ clock = 0
  /\ pc = [h \in Handlers |-> "idle"]
  /\ req = [h \in Handlers |-> NoRequest]
  /\ loc = [h \in Handlers |-> NoLocals]
  /\ resp = [h \in Handlers |-> NoResponse]
  /\ overlap = {}
  /\ calls = 0
  /\ users = NoUsers /\ otps = NoOtps /\ institutions = NoInstitutions
  /\ tokens = {} /\ verified = {}
  /\ \E n \in 0..MaxResultAttempts : \E c \in 0..n : \E sc \in 0..MaxPoints :
        probe = [fn |-> "", attempts |-> ResultAttempts(n, c, sc),
                 result |-> statisticsOf(<<>>)]

NextStatistics == Returns("statisticsOf", statisticsOf(probe.attempts))

SpecStatistics == InitStatistics /\ [][NextStatistics]_vars

(* ------------------------ routes specification ----------------------- *)
\* The quiz routes POST /:id/attempt, PUT /:id/submit and GET /:id/results
\* with their middleware, serving the requests of six users one at a time.
\* The middleware reads the user and the quiz's institution, which no call
\* of this specification writes, so a request's middleware and the first
\* store call of its service are one step.
Users ==
  {[id |-> "stu1", role |-> "STUDENT", institutionId |-> "inst1", approved |-> TRUE],
   [id |-> "stu2", role |-> "STUDENT", institutionId |-> "inst2", approved |-> TRUE],
   [id |-> "tea1", role |-> "TEACHER", institutionId |-> "inst1", approved |-> TRUE],
   [id |-> "adm2", role |-> "ADMIN", institutionId |-> "inst2", approved |-> TRUE],
   [id |-> "gcc1", role |-> "GLOBAL_CONTENT_CREATOR",
    institutionId |-> NoInstitution, approved |-> TRUE],
   [id |-> "sup1", role |-> "SUPER_ADMIN",
    institutionId |-> NoInstitution, approved |-> TRUE]}

\* prisma.user.findUnique({ where: { id } })
UserById(id) == CHOOSE u \in Users : u.id = id

\* ApiResponse.error(res, message, statusCode)
ApiResponse_error(message, statusCode) ==
  [status |-> statusCode, message |-> message, body |-> NoBody]

\* authenticate, for the token of a stored user: req.user, unless the
\* account is not approved
authenticate(user) ==
  IF ~user.approved
  THEN ApiResponse_error("Account is pending approval", StatusForbidden)
  ELSE NoResponse

\* quiz.institutionId || quiz.subject.grade.institution.id
quizInstitutionId(quiz) ==
  IF quiz.institutionId # NoInstitution THEN quiz.institutionId
  ELSE quiz.subjectInstitutionId

QuizIdRequired == ApiResponse_error("Quiz ID is required", StatusBadRequest)

GuardQuizNotFound == ApiResponse_error("Quiz not found", StatusNotFound)

QuizAccessDenied == ApiResponse_error("Access to this quiz is denied", StatusForbidden)

\* requireQuizAccess() on req.params.quizId || req.body.quizId: the response
\* it sends, or NoResponse when it calls next()
requireQuizAccess(user, params, body) ==
  LET quizId == IF "quizId" \in DOMAIN params THEN params.quizId
                ELSE body.quizId
  IN  IF quizId = Undefined THEN QuizIdRequired
      ELSE IF ~findUniqueQuiz(quizId).exists THEN GuardQuizNotFound
      ELSE IF ~canAccessInstitution(user, quizInstitutionId(findUniqueQuiz(quizId)))
      THEN QuizAccessDenied
      ELSE NoResponse

CannotParticipate ==
  ApiResponse_error("Cannot participate in quizzes", StatusForbidden)

\* requireQuizParticipationAccess()
requireQuizParticipationAccess(user) ==
  IF ~canTakeQuiz(user) THEN CannotParticipate ELSE NoResponse

\* quizSubmissionLimiter: limited says whether the address of the request
\* has used up its submissions of this minute
quizSubmissionLimiter(limited) ==
  IF limited
  THEN ApiResponse_error(
         "Too many quiz submissions, please wait before submitting again.",
         StatusTooManyRequests)
  ELSE NoResponse

\* the response of the first middleware of the chain that sends one
firstResponse(chain) ==
  IF \A i \in DOMAIN chain : chain[i] = NoResponse THEN NoResponse
  ELSE chain[CHOOSE i \in DOMAIN chain :
               /\ chain[i] # NoResponse
               /\ \A j \in 1..(i - 1) : chain[j] = NoResponse]

\* a request answered by the route with no store write
Answered(h, call, response) ==
  /\ Return(h, call, response)
  /\ overlap' = OverlapAtCall(h)
  /\ calls' = calls + 1
  /\ UNCHANGED <<quizzes, questions, attempts, snapshot, clock, probe, users,
                 otps, institutions, tokens, verified>>

\* the handler that serves the requests
RouteHandler == CHOOSE h \in Handlers : TRUE

\* POST /:id/attempt with the body's quizId
postAttempt(h, user, id, bodyQuizId) ==
  /\ pc[h] \in {"idle", "done"}
  /\ calls < MaxCalls
  /\ LET denial == firstResponse(<<authenticate(user),
                                   requireQuizAccess(user, [id |-> id],
                                                     [quizId |-> bodyQuizId]),
                                   requireQuizParticipationAccess(user)>>)
         call   == [NoRequest EXCEPT !.op = "start", !.quizId = id,
                                     !.studentId = user.id, !.seq = calls + 1]
     IN  IF denial # NoResponse
         THEN Answered(h, call, denial)
         ELSE startQuizAttempt_findQuiz(h, id, user.id)

\* PUT /:id/submit with the body's quizId, attemptId and answers (the :id of
\* the path is only logged)
putSubmit(h, user, bodyQuizId, attemptId, answers, limited) ==
  /\ pc[h] \in {"idle", "done"}
  /\ calls < MaxCalls
  /\ LET denial == firstResponse(<<authenticate(user),
                                   requireQuizAccess(user, [id |-> bodyQuizId],
                                                     [quizId |-> bodyQuizId]),
                                   requireQuizParticipationAccess(user),
                                   quizSubmissionLimiter(limited)>>)
         call   == [NoRequest EXCEPT !.op = "submit", !.studentId = user.id,
                                     !.attemptId = attemptId, !.seq = calls + 1]
     IN  IF denial # NoResponse
         THEN Answered(h, call, denial)
         ELSE submitQuizAttempt_findAttempt(h, attemptId, answers, user.id)

\* GET /:id/results with the body's quizId
getResults(h, user, id, bodyQuizId) ==
  /\ pc[h] \in {"idle", "done"}
  /\ calls < MaxCalls
  /\ LET denial == firstResponse(<<authenticate(user),
                                   requireQuizAccess(user, [id |-> id],
                                                     [quizId |-> bodyQuizId])>>)
         call   == [NoRequest EXCEPT !.op = "results", !.quizId = id,
                                     !.studentId = user.id, !.seq = calls + 1]
     IN  IF denial # NoResponse
         THEN Answered(h, call, denial)
         ELSE Answered(h, call, getQuizResults(id, user.id, user.role))

\* the second quiz: of institution inst2 through its subject only
RouteQuizzes ==
  [InitQuizzes EXCEPT !["quizB"] =
     [id |-> "quizB", exists |-> TRUE, startTime |-> 1, endTime |-> 2,
      durationMins |-> 30, institutionId |-> NoInstitution,
      subjectInstitutionId |-> "inst2", createdById |-> "adm2",
      settings |-> [allowRetake |-> FALSE]]]

\* quizA has one question and is open; either it is the only quiz and nobody
\* has started it, or quizB exists too and stu2 has started quizB
InitRoutes ==
  /\ questions = <<newQuestion(1, "quizA", "a", MaxPoints)>>
  /\ \/ /\ quizzes = InitQuizzes
        /\ attempts = <<>>
        /\ snapshot = <<>>
     \/ /\ quizzes = RouteQuizzes
        /\ attempts = <<newAttempt(1, "quizB", "stu2", 0, 1)>>
        /\ snapshot = <<[loaded |-> {}, inserted |-> {}]>>
  /\ clock = 1
  /\ pc = [h \in Handlers |-> "idle"]
  /\ req = [h \in Handlers |-> NoRequest]
  /\ loc = [h \in Handlers |-> NoLocals]
  /\ resp = [h \in Handlers |-> NoResponse]
  /\ overlap = {}
  /\ calls = 0
  /\ users = NoUsers /\ otps = NoOtps /\ institutions = NoInstitutions
  /\ tokens = {} /\ verified = {}
  /\ probe = NoProbe

NextRoutes ==
  \/ \E u \in Users, id \in QuizIds, b \in QuizIds \cup {Undefined} :
        postAttempt(RouteHandler, u, id, b)
  \/ \E h \in Handlers : startQuizAttempt_findExisting(h)
  \/ \E h \in Handlers : startQuizAttempt_create(h)
  \/ \E u \in Users, b \in QuizIds \cup {Undefined}, a \in AttemptIds,
        ans \in Payloads, limited \in BOOLEAN :
        putSubmit(RouteHandler, u, b, a, ans, limited)
  \/ \E h \in Handlers : submitQuizAttempt_update(h)
  \/ \E u \in Users, id \in QuizIds, b \in QuizIds \cup {Undefined} :
        getResults(RouteHandler, u, id, b)

SpecRoutes == InitRoutes /\ [][NextRoutes]_vars

(* ---------------------- quiz routes specification --------------------- *)
\* Every route of the quiz router that names a quiz in its path, with its
\* middleware, serving the requests of the six users one at a time.
StatusCreated == 201

\* requireQuizCreationAccess()
requireQuizCreationAccess(user) ==
  IF ~canCreateQuiz(user)
  THEN ApiResponse_error("Cannot create quizzes", StatusForbidden)
  ELSE NoResponse

\* questions: { select: { id, text, options, difficulty, points,
\* ...(includeAnswers && { answer: true }) } }
questionSelect(q, includeAnswers) ==
  IF includeAnswers
  THEN [id |-> q.id, text |-> q.text, options |-> q.options,
        difficulty |-> q.difficulty, points |-> q.points, answer |-> q.answer]
  ELSE [id |-> q.id, text |-> q.text, options |-> q.options,
        difficulty |-> q.difficulty, points |-> q.points]

\* QuizService.getQuizById(quizId, includeAnswers): the quiz it returns
getQuizById(quizId, includeAnswers) ==
  LET quiz == findUniqueQuiz(quizId)
      qs   == QuestionsOf(quizId)
  IN  [id |-> quiz.id, startTime |-> quiz.startTime, endTime |-> quiz.endTime,
       durationMins |-> quiz.durationMins, institutionId |-> quiz.institutionId,
       createdById |-> quiz.createdById,
       questions |-> [i \in 1..Len(qs) |-> questionSelect(qs[i], includeAnswers)]]

\* a request of the quiz router: the route, the :id of the path and the user
RouteCall(op, id, user) ==
  [NoRequest EXCEPT !.op = op, !.quizId = id, !.studentId = user.id,
                    !.seq = calls + 1]

\* a request answered after a store write: everything but the written table
\* is as Answered leaves it
AnsweredAfterWrite(h, call, response) ==
  /\ Return(h, call, response)
  /\ overlap' = OverlapAtCall(h)
  /\ calls' = calls + 1
  /\ UNCHANGED <<attempts, snapshot, clock, probe, users, otps, institutions, tokens, verified>>

\* GET /:id (includeAnswers: the query has includeAnswers=true)
getQuiz(h, user, id, bodyQuizId, includeAnswers) ==
  /\ pc[h] \in {"idle", "done"}
  /\ calls < MaxCalls
  /\ LET denial == firstResponse(<<authenticate(user),
                                   requireQuizAccess(user, [id |-> id],
                                                     [quizId |-> bodyQuizId])>>)
         call   == RouteCall("getQuiz", id, user)
     IN  IF denial # NoResponse THEN Answered(h, call, denial)
         ELSE IF ~findUniqueQuiz(id).exists
         THEN Answered(h, call, QuizNotFoundError)
         ELSE Answered(h, call, success(getQuizById(id, includeAnswers),
                                        "Quiz retrieved successfully"))

\* GET /:id/questions
getQuizQuestions(h, user, id, bodyQuizId, includeAnswers) ==
  /\ pc[h] \in {"idle", "done"}
  /\ calls < MaxCalls
  /\ LET denial == firstResponse(<<authenticate(user),
                                   requireQuizAccess(user, [id |-> id],
                                                     [quizId |-> bodyQuizId])>>)
         call   == RouteCall("getQuestions", id, user)
         quiz   == getQuizById(id, includeAnswers)
     IN  IF denial # NoResponse THEN Answered(h, call, denial)
         ELSE IF ~findUniqueQuiz(id).exists
         THEN Answered(h, call, QuizNotFoundError)
         ELSE Answered(h, call,
                 success([questions |->
                            [i \in DOMAIN quiz.questions |->
                               IF includeAnswers
                               THEN [id |-> quiz.questions[i].id,
                                     text |-> quiz.questions[i].text,
                                     options |-> quiz.questions[i].options,
                                     difficulty |-> quiz.questions[i].difficulty,
                                     points |-> quiz.questions[i].points,
                                     answer |-> quiz.questions[i].answer]
                               ELSE [id |-> quiz.questions[i].id,
                                     text |-> quiz.questions[i].text,
                                     options |-> quiz.questions[i].options,
                                     difficulty |-> quiz.questions[i].difficulty,
                                     points |-> quiz.questions[i].points]]],
                         "Quiz questions retrieved successfully"))

\* prisma's P2025 as errorHandler answers it
RecordNotFound == errorHandler(StatusNotFound, "Record not found")

\* POST /:id/questions: the body's question goes to the quiz of the path
postQuestion(h, user, id, bodyQuizId, answer, points) ==
  /\ pc[h] \in {"idle", "done"}
  /\ calls < MaxCalls
  /\ Len(questions) < MaxQuestions
  /\ points \in MinPoints..MaxPointsAllowed
  /\ LET denial == firstResponse(<<authenticate(user),
                                   requireQuizAccess(user, [id |-> id],
                                                     [quizId |-> bodyQuizId]),
                                   requireQuizCreationAccess(user)>>)
         call   == RouteCall("addQuestion", id, user)
         question == newQuestion(Len(questions) + 1, id, answer, points)
     IN  IF denial # NoResponse THEN Answered(h, call, denial)
         ELSE IF ~findUniqueQuiz(id).exists
         THEN Answered(h, call, QuizNotFoundError)
         ELSE /\ questions' = Append(questions, question)
              /\ AnsweredAfterWrite(h, call,
                    [success(question, "Question added successfully")
                       EXCEPT !.status = StatusCreated])
              /\ UNCHANGED quizzes

\* PUT /:id/schedule with startTime, endTime and durationMins in the body
putSchedule(h, user, id, bodyQuizId, startTime, endTime, durationMins) ==
  /\ pc[h] \in {"idle", "done"}
  /\ calls < MaxCalls
  /\ LET denial == firstResponse(<<authenticate(user),
                                   requireQuizAccess(user, [id |-> id],
                                                     [quizId |-> bodyQuizId]),
                                   requireQuizCreationAccess(user)>>)
         call   == RouteCall("schedule", id, user)
         row    == [quizzes[id] EXCEPT !.startTime = startTime,
                                       !.endTime = endTime,
                                       !.durationMins = durationMins]
     IN  IF denial # NoResponse THEN Answered(h, call, denial)
         ELSE IF ~quizzes[id].exists THEN Answered(h, call, RecordNotFound)
         ELSE /\ quizzes' = [quizzes EXCEPT ![id] = row]
              /\ AnsweredAfterWrite(h, call,
                                    success(row, "Quiz scheduled successfully"))
              /\ UNCHANGED questions

\* PUT /:id with the IQuizUpdate fields of the body (NoTime: absent)
putQuiz(h, user, id, bodyQuizId, startTime, endTime, durationMins) ==
  /\ pc[h] \in {"idle", "done"}
  /\ calls < MaxCalls
  /\ LET denial == firstResponse(<<authenticate(user),
                                   requireQuizAccess(user, [id |-> id],
                                                     [quizId |-> bodyQuizId]),
                                   requireQuizCreationAccess(user)>>)
         call   == RouteCall("update", id, user)
         row    == [quizzes[id] EXCEPT
                      !.startTime = IF startTime = NoTime THEN @ ELSE startTime,
                      !.endTime = IF endTime = NoTime THEN @ ELSE endTime,
                      !.durationMins =
                          IF durationMins = NoTime THEN @ ELSE durationMins]
     IN  IF denial # NoResponse THEN Answered(h, call, denial)
         ELSE IF ~quizzes[id].exists THEN Answered(h, call, RecordNotFound)
         ELSE /\ quizzes' = [quizzes EXCEPT ![id] = row]
              /\ AnsweredAfterWrite(h, call,
                                    success(row, "Quiz updated successfully"))
              /\ UNCHANGED questions

\* DELETE /:id up to deleteQuiz's second await: the middleware, the read of
\* the quiz's attempts and the refusal when there is one
deleteQuiz_findAttempts(h, user, id, bodyQuizId) ==
  /\ pc[h] \in {"idle", "done"}
  /\ calls < MaxCalls
  /\ LET denial == firstResponse(<<authenticate(user),
                                   requireQuizAccess(user, [id |-> id],
                                                     [quizId |-> bodyQuizId]),
                                   requireQuizCreationAccess(user)>>)
         call   == RouteCall("delete", id, user)
     IN  IF denial # NoResponse THEN Answered(h, call, denial)
         ELSE IF AttemptsOf(id) # <<>>
         THEN Answered(h, call,
                 errorHandler(StatusBadRequest,
                              "Cannot delete quiz with existing attempts"))
         ELSE /\ req' = [req EXCEPT ![h] = call]
              /\ resp' = [resp EXCEPT ![h] = NoResponse]
              /\ loc' = [loc EXCEPT ![h] = NoLocals]
              /\ pc' = [pc EXCEPT ![h] = "delete_questions"]
              /\ overlap' = OverlapAtCall(h)
              /\ calls' = calls + 1
              /\ UNCHANGED <<quizzes, questions, attempts, snapshot, clock,
                             probe, users, otps, institutions, tokens, verified>>

\* prisma.question.deleteMany({ where: { quizId } }): the rows leave the
\* table (the positions of the others, which are their ids, stay)
deleteQuiz_deleteQuestions(h) ==
  /\ pc[h] = "delete_questions"
  /\ questions' = [i \in DOMAIN questions |->
                     IF questions[i].quizId = req[h].quizId
                     THEN [questions[i] EXCEPT !.quizId = ""]
                     ELSE questions[i]]
  /\ pc' = [pc EXCEPT ![h] = "delete_quiz"]
  /\ UNCHANGED <<quizzes, attempts, snapshot, clock, req, loc, resp, overlap,
                 calls, probe, users, otps, institutions, tokens, verified>>

\* the quiz row is referenced by an attempt row: the store keeps both
referencedByAttempt(quizId) == AttemptsOf(quizId) # <<>>

\* prisma.quiz.delete({ where: { id: quizId } }) and the return value
deleteQuiz_deleteQuiz(h) ==
  /\ pc[h] = "delete_quiz"
  /\ LET id == req[h].quizId
     IN  IF ~quizzes[id].exists
         THEN Return(h, req[h], RecordNotFound) /\ UNCHANGED quizzes
         ELSE IF referencedByAttempt(id)
         THEN /\ Return(h, req[h],
                     errorHandler(StatusBadRequest,
                                  "Invalid foreign key reference"))
              /\ UNCHANGED quizzes
         ELSE /\ quizzes' = [quizzes EXCEPT ![id] = NoQuiz]
              /\ Return(h, req[h],
                        success([message |-> "Quiz deleted successfully"],
                                "Quiz deleted successfully"))
  /\ UNCHANGED <<questions, attempts, snapshot, clock, overlap, calls, probe,
                 users, otps, institutions, tokens, verified>>

\* quizA with or without its question, and as in InitRoutes either alone and
\* not started, or with quizB, which stu2 has started
InitQuizRoutes ==
  /\ questions \in {<<>>, <<newQuestion(1, "quizA", "a", MaxPoints)>>}
  /\ \/ /\ quizzes = InitQuizzes
        /\ attempts = <<>>
        /\ snapshot = <<>>
     \/ /\ quizzes = RouteQuizzes
        /\ attempts = <<newAttempt(1, "quizB", "stu2", 0, 1)>>
        /\ snapshot = <<[loaded |-> {}, inserted |-> {}]>>
  /\ clock = 1
  /\ pc = [h \in Handlers |-> "idle"]
  /\ req = [h \in Handlers |-> NoRequest]
  /\ loc = [h \in Handlers |-> NoLocals]
  /\ resp = [h \in Handlers |-> NoResponse]
  /\ overlap = {}
  /\ calls = 0
  /\ users = NoUsers /\ otps = NoOtps /\ institutions = NoInstitutions
  /\ tokens = {} /\ verified = {}
  /\ probe = NoProbe

BodyQuizIds == QuizIds \cup {Undefined}

NextQuizRoutes ==
  \/ \E u \in Users, id \in QuizIds, b \in BodyQuizIds :
        postAttempt(RouteHandler, u, id, b)
  \/ \E h \in Handlers : startQuizAttempt_findExisting(h)
  \/ \E h \in Handlers : startQuizAttempt_create(h)
  \/ \E u \in Users, b \in BodyQuizIds, a \in AttemptIds, ans \in Payloads,
        limited \in BOOLEAN : putSubmit(RouteHandler, u, b, a, ans, limited)
  \/ \E h \in Handlers : submitQuizAttempt_update(h)
  \/ \E u \in Users, id \in QuizIds, b \in BodyQuizIds :
        getResults(RouteHandler, u, id, b)
  \/ \E u \in Users, id \in QuizIds, b \in BodyQuizIds, inc \in BOOLEAN :
        getQuiz(RouteHandler, u, id, b, inc)
  \/ \E u \in Users, id \in QuizIds, b \in BodyQuizIds, inc \in BOOLEAN :
        getQuizQuestions(RouteHandler, u, id, b, inc)
  \/ \E u \in Users, id \in QuizIds, b \in BodyQuizIds, ans \in AnswerValues,
        p \in MinPoints..MaxPoints : postQuestion(RouteHandler, u, id, b, ans, p)
  \/ \E u \in Users, id \in QuizIds, b \in BodyQuizIds, st \in ScheduleTimes,
        et \in ScheduleTimes, d \in Durations :
        putSchedule(RouteHandler, u, id, b, st, et, d)
  \/ \E u \in Users, id \in QuizIds, b \in BodyQuizIds,
        st \in ScheduleTimes \cup {NoTime}, et \in ScheduleTimes \cup {NoTime},
        d \in Durations \cup {NoTime} : putQuiz(RouteHandler, u, id, b, st, et, d)
  \/ \E u \in Users, id \in QuizIds, b \in BodyQuizIds :
        deleteQuiz_findAttempts(RouteHandler, u, id, b)
  \/ \E h \in Handlers : deleteQuiz_deleteQuestions(h)
  \/ \E h \in Handlers : deleteQuiz_deleteQuiz(h)

SpecQuizRoutes == InitQuizRoutes /\ [][NextQuizRoutes]_vars

(* ---------------------- lifecycle specification ----------------------- *)
\* The calls of Spec, with one answers object for Submit and updateQuiz moving
\* the endTime only, together with the two other operations on a quiz that
\* has attempts: DELETE /:id requested by the SUPER_ADMIN and GET /:id/results
\* requested by a teacher and by a student, each naming in its body the quiz
\* of its path.  The steps of all calls are interleaved.

\* updateQuiz with a body that carries the quiz's relation field `attempts`
\* (the relation getQuizResults includes): the controller hands req.body to
\* the service unvalidated and the service hands it to prisma.quiz.update as
\* `data`, so { attempts: { updateMany: { where: {}, data: { completed } } } }
\* is a nested write on every attempt of the quiz (a missing quiz: the update
\* throws, nothing written)
updateQuiz_attempts(quizId, completed) ==
  /\ quizzes[quizId].exists
  /\ attempts' = [i \in DOMAIN attempts |->
                    IF attempts[i].quizId = quizId
                    THEN [attempts[i] EXCEPT !.completed = completed]
                    ELSE attempts[i]]
  /\ UNCHANGED <<quizzes, questions, snapshot, clock, pc, req, loc, resp,
                 overlap, calls>>
  /\ UNCHANGED <<probe, users, otps, institutions, tokens, verified>>

NextLifecycle ==
  \/ \E h \in Handlers, z \in QuizIds, s \in StudentIds :
        startQuizAttempt_findQuiz(h, z, s)
  \/ \E h \in Handlers : startQuizAttempt_findExisting(h)
  \/ \E h \in Handlers : startQuizAttempt_create(h)
  \/ \E h \in Handlers, a \in AttemptIds, s \in StudentIds :
        submitQuizAttempt_findAttempt(h, a, [q \in PayloadKeys |-> "a"], s)
  \/ \E h \in Handlers : submitQuizAttempt_update(h)
  \/ \E z \in QuizIds, ans \in AnswerValues, p \in MinPoints..MaxPoints :
        addQuestion(z, ans, p)
  \/ \E z \in QuizIds, st \in ScheduleTimes, et \in ScheduleTimes, d \in Durations :
        scheduleQuiz(z, st, et, d)
  \/ \E z \in QuizIds, et \in ScheduleTimes : updateQuiz(z, NoTime, et, NoTime)
  \/ \E z \in QuizIds, c \in BOOLEAN : updateQuiz_attempts(z, c)
  \/ Tick
  \/ \E h \in Handlers, z \in QuizIds :
        deleteQuiz_findAttempts(h, UserById("sup1"), z, z)
  \/ \E h \in Handlers : deleteQuiz_deleteQuestions(h)
  \/ \E h \in Handlers : deleteQuiz_deleteQuiz(h)
  \/ \E u \in {x \in Users : x.id \in {"tea1", "stu1"}}, z \in QuizIds :
        getResults(RouteHandler, u, z, z)

SpecLifecycle == Init /\ [][NextLifecycle]_vars

(* ----------------------- accounts specification ----------------------- *)
\* The auth routes signup, login, GET /profile and PUT /profile and the
\* institution route PUT /:id/users/:userId/approve over the user table,
\* requests served one at a time.  A request that needs a token is made for
\* a user login has issued a token to.
StatusUnauthorized == 401
SaltRounds == 12
Passwords == {"pwA", "pwB"}

\* AuthUtils.hashPassword: bcrypt.hash(password, saltRounds)
hashPassword(password) == [bcrypt |-> password, saltRounds |-> SaltRounds]

\* AuthUtils.comparePassword: bcrypt.compare(password, hash)
comparePassword(password, hash) == hash.bcrypt = password

\* the super admin the seed script creates
SeedSuperAdmin ==
  [id |-> "u1", exists |-> TRUE, phoneNumber |-> "p1",
   name |-> "Super Administrator", role |-> "SUPER_ADMIN",
   institutionId |-> NoInstitution, approved |-> TRUE,
   password |-> hashPassword("pwA")]

\* the institution the seed script creates, and one created since
SeedInstitutions ==
  [i \in InstitutionIds |->
     [id |-> i, exists |-> TRUE, name |-> "Sample University",
      approved |-> (i = "inst1"), adminId |-> "u1"]]

\* prisma.user.findUnique({ where: { phoneNumber } })
findUserByPhone(phoneNumber) ==
  IF \E u \in UserIds : users[u].exists /\ users[u].phoneNumber = phoneNumber
  THEN users[CHOOSE u \in UserIds :
                users[u].exists /\ users[u].phoneNumber = phoneNumber]
  ELSE NoUser

\* the fields of a user row the services return
userView(user) ==
  [id |-> user.id, phoneNumber |-> user.phoneNumber, name |-> user.name,
   role |-> user.role, institutionId |-> user.institutionId,
   approved |-> user.approved]

\* a request of the auth or institution router: the route, the user the
\* token or the phone number names ("" for none) and the user acted on
AccountCall(op, userId, target) ==
  [NoRequest EXCEPT !.op = op, !.studentId = userId] @@ [target |-> target]

\* a request answered: the tables it wrote are set by the route
AccountAnswered(h, call, response) ==
  /\ pc[h] \in {"idle", "done"}
  /\ pc' = [pc EXCEPT ![h] = "done"]
  /\ req' = [req EXCEPT ![h] = call]
  /\ resp' = [resp EXCEPT ![h] = response]
  /\ UNCHANGED <<quizzes, questions, attempts, snapshot, clock, loc, overlap,
                 calls, probe>>

\* AuthService.signup behind POST /auth/signup
signup(h, phoneNumber, role, institutionId, password) ==
  LET existingUser == findUserByPhone(phoneNumber)
      id == CHOOSE u \in UserIds : ~users[u].exists
      user == [id |-> id, exists |-> TRUE, phoneNumber |-> phoneNumber,
               name |-> "name", role |-> role,
               institutionId |-> institutionId,
               approved |-> (role = "STUDENT"),
               password |-> hashPassword(password)]
  IN  /\ \E u \in UserIds : ~users[u].exists
      /\ IF existingUser.exists
         THEN /\ AccountAnswered(h, AccountCall("signup", "", existingUser.id),
                    errorHandler(StatusConflict,
                      "User with this phone number or email already exists"))
              /\ UNCHANGED users
         ELSE /\ AccountAnswered(h, AccountCall("signup", "", id),
                    [status |-> StatusCreated,
                     message |-> IF user.approved
                                 THEN "User registered successfully"
                                 ELSE "User registered successfully. Account pending approval.",
                     body |-> userView(user)])
              /\ users' = [users EXCEPT ![id] = user]
      /\ UNCHANGED <<otps, institutions, tokens, verified>>

\* the checks of AuthService.login, in the order of the code, on the user
\* row found by the phone number
loginChecks_passwordOnly(user, password) ==
  IF ~user.exists
  THEN errorHandler(StatusUnauthorized, "Invalid phone number or password")
  ELSE IF ~comparePassword(password, user.password)
  THEN errorHandler(StatusUnauthorized, "Invalid phone number or password")
  ELSE NoResponse

loginChecks(user, password) ==
  IF ~user.exists
  THEN errorHandler(StatusUnauthorized, "Invalid phone number or password")
  ELSE IF ~user.approved
  THEN errorHandler(StatusForbidden, "Account is pending approval")
  ELSE IF ~comparePassword(password, user.password)
  THEN errorHandler(StatusUnauthorized, "Invalid phone number or password")
  ELSE NoResponse

\* AuthService.login behind POST /auth/login: a token for the user
login(h, phoneNumber, password) ==
  LET user == findUserByPhone(phoneNumber)
      denial == loginChecks(user, password)
      call == AccountCall("login", user.id, user.id)
  IN  /\ IF denial # NoResponse
         THEN /\ AccountAnswered(h, call, denial)
              /\ UNCHANGED tokens
         ELSE /\ AccountAnswered(h, call,
                                 success(userView(user), "Login successful"))
              /\ tokens' = tokens \cup {user.id}
      /\ UNCHANGED <<users, otps, institutions, verified>>

\* GET /auth/profile with the token of userId
getProfile(h, userId) ==
  LET denial == authenticate(users[userId])
      call == AccountCall("getProfile", userId, userId)
  IN  /\ userId \in tokens
      /\ IF denial # NoResponse
         THEN AccountAnswered(h, call, denial)
         ELSE AccountAnswered(h, call,
                success(userView(users[userId]),
                        "Profile retrieved successfully"))
      /\ UNCHANGED <<users, otps, institutions, tokens, verified>>

\* the request bodies of PUT /auth/profile: a field is absent when its value
\* is Undefined, and approved is written as its JSON text
ProfileBodies ==
  [role : {Undefined, "SUPER_ADMIN"}, approved : {Undefined, "true"},
   phoneNumber : {Undefined, "p2"},
   institutionId : {Undefined, "inst1", "inst2"},
   password : {Undefined} \cup Passwords]

\* const { id, phoneNumber, role, approved, createdAt, updatedAt,
\*         ...allowedUpdates } = updateData, the password hashed
allowedUpdates(updateData) ==
  [k \in {f \in {"institutionId", "password"} : updateData[f] # Undefined} |->
     IF k = "password" THEN hashPassword(updateData.password)
     ELSE updateData[k]]

\* AuthService.updateProfile behind PUT /auth/profile with the token of
\* userId; prisma.user.update({ where: { id }, data }) writes the fields
\* data carries
updateProfile(h, userId, updateData) ==
  LET denial == authenticate(users[userId])
      call == AccountCall("updateProfile", userId, userId)
      data == allowedUpdates(updateData)
      updated ==
        [users[userId] EXCEPT
           !.institutionId = IF "institutionId" \in DOMAIN data
                             THEN data.institutionId ELSE @,
           !.password = IF "password" \in DOMAIN data THEN data.password ELSE @]
  IN  /\ userId \in tokens
      /\ IF denial # NoResponse
         THEN /\ AccountAnswered(h, call, denial)
              /\ UNCHANGED users
         ELSE /\ AccountAnswered(h, call,
                    success(userView(updated), "Profile updated successfully"))
              /\ users' = [users EXCEPT ![userId] = updated]
      /\ UNCHANGED <<otps, institutions, tokens, verified>>

\* authorize({ requiredRoles }) on the authenticated user
authorize(user, requiredRoles) ==
  IF requiredRoles # {} /\ user.role \notin requiredRoles
  THEN ApiResponse_error("Insufficient permissions", StatusForbidden)
  ELSE IF ~user.approved
  THEN ApiResponse_error("Account is pending approval", StatusForbidden)
  ELSE NoResponse

\* requireInstitutionAccess('id') on the :id of the path
requireInstitutionAccess(user, institutionId) ==
  IF ~canAccessInstitution(user, institutionId)
  THEN ApiResponse_error("Access to this institution is denied", StatusForbidden)
  ELSE NoResponse

\* PUT /institutions/:id/users/:userId/approve with the token of callerId
\* and the body { approved }
approveInstitutionUser(h, callerId, institutionId, userId, approved) ==
  LET caller == users[callerId]
      denial == firstResponse(<<authenticate(caller),
                                requireInstitutionAccess(caller, institutionId),
                                authorize(caller, {"SUPER_ADMIN", "ADMIN"})>>)
      call == AccountCall("approveInstitutionUser", callerId, userId)
      found == users[userId].exists /\ users[userId].institutionId = institutionId
  IN  /\ callerId \in tokens
      /\ IF denial # NoResponse
         THEN /\ AccountAnswered(h, call, denial)
              /\ UNCHANGED users
         ELSE IF ~found
         THEN /\ AccountAnswered(h, call,
                    ApiResponse_error("User not found in this institution",
                                      StatusNotFound))
              /\ UNCHANGED users
         ELSE /\ AccountAnswered(h, call,
                    success(userView([users[userId] EXCEPT !.approved = approved]),
                            IF approved THEN "User approved successfully"
                            ELSE "User rejected successfully"))
              /\ users' = [users EXCEPT ![userId].approved = approved]
      /\ UNCHANGED <<otps, institutions, tokens, verified>>

InitAccounts ==
  /\ quizzes = InitQuizzes
  /\ questions = <<>>
  /\ attempts = <<>>
  /\ snapshot = <<>>
  /\ clock = 0
  /\ pc = [h \in Handlers |-> "idle"]
  /\ req = [h \in Handlers |-> NoRequest]
  /\ loc = [h \in Handlers |-> NoLocals]
  /\ resp = [h \in Handlers |-> NoResponse]
  /\ overlap = {}
  /\ calls = 0
  /\ probe = NoProbe
  /\ users = [NoUsers EXCEPT !["u1"] = SeedSuperAdmin]
  /\ otps = NoOtps
  /\ institutions = SeedInstitutions
  /\ tokens = {}
  /\ verified = {}

NextAccounts ==
  \/ \E p \in PhoneNumbers, r \in {"STUDENT", "ADMIN", "SUPER_ADMIN"},
        i \in {"inst1", NoInstitution}, pw \in Passwords :
        signup(RouteHandler, p, r, i, pw)
  \/ \E p \in PhoneNumbers, pw \in Passwords : login(RouteHandler, p, pw)
  \/ \E u \in UserIds : getProfile(RouteHandler, u)
  \/ \E u \in UserIds, b \in ProfileBodies : updateProfile(RouteHandler, u, b)
  \/ \E u \in UserIds, i \in InstitutionIds, t \in UserIds, a \in BOOLEAN :
        approveInstitutionUser(RouteHandler, u, i, t, a)

SpecAccounts == InitAccounts /\ [][NextAccounts]_vars

(* ----------------------- password specification ----------------------- *)
\* The auth routes send-otp, verify-otp, reset-password, login and
\* PUT /profile over the user and the OTP table, requests served one at a
\* time while the clock runs.  Date.now() is clock * TickMs milliseconds and
\* the second user is a student that signed up with the second phone number.

\* AuthService.sendOTP behind POST /auth/send-otp: the OTP row of the phone
\* number is created or overwritten
sendOTP(h, phoneNumber, otpCode) ==
  /\ AccountAnswered(h, AccountCall("sendOTP", "", phoneNumber),
                     success([message |-> "OTP sent successfully"],
                             "OTP sent successfully"))
  /\ otps' = [otps EXCEPT ![phoneNumber] =
                [exists |-> TRUE, code |-> otpCode,
                 expiresAt |-> clock * TickMs + 10 * 60 * 1000]]
  /\ verified' = verified \ {phoneNumber}
  /\ UNCHANGED <<users, institutions, tokens>>

\* AuthService.verifyOTP behind POST /auth/verify-otp: an expired and a used
\* OTP row are deleted
verifyOTP(h, phoneNumber, code) ==
  LET otpRecord == otps[phoneNumber]
      call == AccountCall("verifyOTP", "", phoneNumber)
  IN  /\ IF ~otpRecord.exists
         THEN /\ AccountAnswered(h, call,
                    errorHandler(StatusBadRequest, "OTP not found or expired"))
              /\ UNCHANGED <<otps, verified>>
         ELSE IF clock * TickMs > otpRecord.expiresAt
         THEN /\ AccountAnswered(h, call,
                    errorHandler(StatusBadRequest, "OTP has expired"))
              /\ otps' = [otps EXCEPT ![phoneNumber] = NoOtp]
              /\ UNCHANGED verified
         ELSE IF otpRecord.code # code
         THEN /\ AccountAnswered(h, call,
                    errorHandler(StatusBadRequest, "Invalid OTP code"))
              /\ UNCHANGED <<otps, verified>>
         ELSE /\ AccountAnswered(h, call,
                    success([message |-> "OTP verified successfully"],
                            "OTP verified successfully"))
              /\ otps' = [otps EXCEPT ![phoneNumber] = NoOtp]
              /\ verified' = verified \cup {phoneNumber}
      /\ UNCHANGED <<users, institutions, tokens>>

\* AuthService.resetPassword behind PUT /auth/reset-password with the body
\* { phoneNumber, newPassword }
resetPassword(h, phoneNumber, newPassword) ==
  LET user == findUserByPhone(phoneNumber)
      call == AccountCall("resetPassword", "", user.id)
  IN  /\ IF ~user.exists
         THEN /\ AccountAnswered(h, call,
                                 errorHandler(StatusNotFound, "User not found"))
              /\ UNCHANGED users
         ELSE /\ AccountAnswered(h, call,
                    success([message |-> "Password reset successfully"],
                            "Password reset successfully"))
              /\ users' = [users EXCEPT
                             ![user.id].password = hashPassword(newPassword)]
      /\ UNCHANGED <<otps, institutions, tokens, verified>>

\* two users; an OTP sent to the second phone number ten minutes ago is
\* in the table or not
InitPassword ==
  /\ quizzes = InitQuizzes
  /\ questions = <<>>
  /\ attempts = <<>>
  /\ snapshot = <<>>
  /\ clock = 0
  /\ pc = [h \in Handlers |-> "idle"]
  /\ req = [h \in Handlers |-> NoRequest]
  /\ loc = [h \in Handlers |-> NoLocals]
  /\ resp = [h \in Handlers |-> NoResponse]
  /\ overlap = {}
  /\ calls = 0
  /\ probe = NoProbe
  /\ users = [u \in UserIds |->
                IF u = "u1" THEN SeedSuperAdmin
                ELSE [id |-> "u2", exists |-> TRUE, phoneNumber |-> "p2",
                      name |-> "name", role |-> "STUDENT",
                      institutionId |-> "inst1", approved |-> TRUE,
                      password |-> hashPassword("pwA")]]
  /\ \/ otps = NoOtps
     \/ otps = [NoOtps EXCEPT !["p2"] =
                  [exists |-> TRUE, code |-> "123456", expiresAt |-> 0]]
  /\ institutions = SeedInstitutions
  /\ tokens = {}
  /\ verified = {}

NextPassword ==
  \/ \E p \in PhoneNumbers, c \in {"123456"} : sendOTP(RouteHandler, p, c)
  \/ \E p \in PhoneNumbers, c \in {"123456", "000000"} : verifyOTP(RouteHandler, p, c)
  \/ \E p \in PhoneNumbers, pw \in Passwords : resetPassword(RouteHandler, p, pw)
  \/ \E p \in PhoneNumbers, pw \in Passwords : login(RouteHandler, p, pw)
  \/ \E u \in UserIds,
        b \in {x \in ProfileBodies : /\ x.role = Undefined
                                    /\ x.approved = Undefined
                                    /\ x.phoneNumber = Undefined
                                    /\ x.institutionId = Undefined} :
        updateProfile(RouteHandler, u, b)
  \/ Tick

SpecPassword == InitPassword /\ [][NextPassword]_vars

(* --------------------- institutions specification --------------------- *)
\* The institution routes POST /, PUT /:id/approve, PUT /:id and DELETE /:id
\* with their middleware over the institution table, requests served one at
\* a time for the super admin, the admin of the second institution and a
\* teacher of the first.  In the body of PUT /:id a field is absent when its
\* value is Undefined, and approved is written as its JSON text.
InstitutionCallers == {u \in Users : u.id \in {"sup1", "adm2", "tea1"}}

\* the institution the seed script creates
SampleInstitution ==
  [id |-> "inst1", exists |-> TRUE, name |-> "Sample University",
   approved |-> TRUE, adminId |-> "sup1"]

\* the fields of an institution row the services return
institutionView(row) ==
  [id |-> row.id, name |-> row.name, approved |-> row.approved,
   adminId |-> row.adminId]

\* InstitutionService.createInstitution behind POST /institutions with the
\* body { name, adminId }
createInstitution(h, user, name, adminId) ==
  LET denial == firstResponse(<<authenticate(user),
                                authorize(user, {"SUPER_ADMIN", "ADMIN"})>>)
      adminExists == \E u \in Users : u.id = adminId
      id == CHOOSE i \in InstitutionIds : ~institutions[i].exists
      institution == [id |-> id, exists |-> TRUE, name |-> name,
                      approved |-> FALSE, adminId |-> adminId]
      call == AccountCall("createInstitution", user.id, id)
  IN  /\ \E i \in InstitutionIds : ~institutions[i].exists
      /\ IF denial # NoResponse
         THEN /\ AccountAnswered(h, call, denial)
              /\ UNCHANGED institutions
         ELSE IF ~adminExists
         THEN /\ AccountAnswered(h, call,
                    errorHandler(StatusNotFound, "Admin user not found"))
              /\ UNCHANGED institutions
         ELSE IF ~UserById(adminId).approved
         THEN /\ AccountAnswered(h, call,
                    errorHandler(StatusForbidden,
                                 "Admin account must be approved"))
              /\ UNCHANGED institutions
         ELSE /\ AccountAnswered(h, call,
                    [status |-> StatusCreated,
                     message |-> "Institution created successfully. Pending approval.",
                     body |-> institutionView(institution)])
              /\ institutions' = [institutions EXCEPT ![id] = institution]
      /\ UNCHANGED <<users, otps, tokens, verified>>

\* InstitutionService.approveInstitution behind PUT /institutions/:id/approve
\* with the body { approved }
approveInstitution(h, user, institutionId, approved) ==
  LET denial == firstResponse(<<authenticate(user),
                                authorize(user, {"SUPER_ADMIN"})>>)
      call == AccountCall("approveInstitution", user.id, institutionId)
  IN  /\ IF denial # NoResponse
         THEN /\ AccountAnswered(h, call, denial)
              /\ UNCHANGED institutions
         ELSE IF ~institutions[institutionId].exists
         THEN /\ AccountAnswered(h, call,
                    errorHandler(StatusNotFound, "Institution not found"))
              /\ UNCHANGED institutions
         ELSE /\ AccountAnswered(h, call,
                    success(institutionView([institutions[institutionId]
                                               EXCEPT !.approved = approved]),
                            IF approved
                            THEN "Institution approved successfully"
                            ELSE "Institution rejected successfully"))
              /\ institutions' =
                   [institutions EXCEPT ![institutionId].approved = approved]
      /\ UNCHANGED <<users, otps, tokens, verified>>

\* InstitutionService.updateInstitution behind PUT /institutions/:id:
\* const { adminId, ...allowedUpdates } = updateData, then
\* prisma.institution.update({ where: { id }, data: allowedUpdates }) writes
\* the fields it carries (a missing institution: the update throws, nothing
\* written)
updateInstitution(h, user, institutionId, updateData) ==
  LET denial == firstResponse(<<authenticate(user),
                                requireInstitutionAccess(user, institutionId),
                                authorize(user, {"SUPER_ADMIN", "ADMIN"})>>)
      call == AccountCall("updateInstitution", user.id, institutionId)
      data == [k \in {f \in {"name", "approved"} : updateData[f] # Undefined}
                 |-> updateData[k]]
      updated ==
        [institutions[institutionId] EXCEPT
           !.name = IF "name" \in DOMAIN data THEN data.name ELSE @,
           !.approved = IF "approved" \in DOMAIN data
                        THEN data.approved = "true" ELSE @]
  IN  /\ IF denial # NoResponse
         THEN /\ AccountAnswered(h, call, denial)
              /\ UNCHANGED institutions
         ELSE IF ~institutions[institutionId].exists
         THEN /\ AccountAnswered(h, call, RecordNotFound)
              /\ UNCHANGED institutions
         ELSE /\ AccountAnswered(h, call,
                    success(institutionView(updated),
                            "Institution updated successfully"))
              /\ institutions' = [institutions EXCEPT ![institutionId] = updated]
      /\ UNCHANGED <<users, otps, tokens, verified>>

\* InstitutionService.deleteInstitution behind DELETE /institutions/:id: the
\* row is kept and marked not approved
deleteInstitution(h, user, institutionId) ==
  LET denial == firstResponse(<<authenticate(user),
                                authorize(user, {"SUPER_ADMIN"})>>)
      call == AccountCall("deleteInstitution", user.id, institutionId)
  IN  /\ IF denial # NoResponse
         THEN /\ AccountAnswered(h, call, denial)
              /\ UNCHANGED institutions
         ELSE IF ~institutions[institutionId].exists
         THEN /\ AccountAnswered(h, call,
                    errorHandler(StatusNotFound, "Institution not found"))
              /\ UNCHANGED institutions
         ELSE /\ AccountAnswered(h, call,
                    success([message |-> "Institution deleted successfully"],
                            "Institution deleted successfully"))
              /\ institutions' =
                   [institutions EXCEPT ![institutionId].approved = FALSE]
      /\ UNCHANGED <<users, otps, tokens, verified>>

\* the seeded institution, alone or with one created since
InitInstitutions ==
  /\ quizzes = InitQuizzes
  /\ questions = <<>>
  /\ attempts = <<>>
  /\ snapshot = <<>>
  /\ clock = 0
  /\ pc = [h \in Handlers |-> "idle"]
  /\ req = [h \in Handlers |-> NoRequest]
  /\ loc = [h \in Handlers |-> NoLocals]
  /\ resp = [h \in Handlers |-> NoResponse]
  /\ overlap = {}
  /\ calls = 0
  /\ probe = NoProbe
  /\ users = NoUsers
  /\ otps = NoOtps
  /\ \/ institutions = [NoInstitutions EXCEPT !["inst1"] = SampleInstitution]
     \/ institutions = [i \in InstitutionIds |->
                          IF i = "inst1" THEN SampleInstitution
                          ELSE [id |-> "inst2", exists |-> TRUE,
                                name |-> "name", approved |-> FALSE,
                                adminId |-> "adm2"]]
  /\ tokens = {}
  /\ verified = {}

NextInstitutions ==
  \/ \E u \in InstitutionCallers, a \in {"sup1", "adm2", "nobody"} :
        createInstitution(RouteHandler, u, "name", a)
  \/ \E u \in InstitutionCallers, i \in InstitutionIds, a \in BOOLEAN :
        approveInstitution(RouteHandler, u, i, a)
  \/ \E u \in InstitutionCallers, i \in InstitutionIds,
        b \in [name : {Undefined, "Renamed"}, adminId : {Undefined, "adm2"},
               approved : {Undefined, "true", "false"}] :
        updateInstitution(RouteHandler, u, i, b)
  \/ \E u \in InstitutionCallers, i \in InstitutionIds :
        deleteInstitution(RouteHandler, u, i)

SpecInstitutions == InitInstitutions /\ [][NextInstitutions]_vars

(* ------------------------ retake specification ------------------------ *)
\* Start and Submit calls of the students, their steps interleaved, while the
\* clock runs, on a quiz created with settings.allowRetake false (the
\* default of validationSchemas.quizCreate) or true.
InitRetake ==
  /\ quizzes \in {[InitQuizzes EXCEPT !["quizA"].settings.allowRetake = b] :
                    b \in BOOLEAN}
  /\ questions = <<>>
  /\ \/ /\ attempts = <<>>
        /\ snapshot = <<>>
        /\ clock = 0
     \/ /\ attempts = <<newAttempt(1, "quizA", "stu1", 0, 1)>>
        /\ snapshot = <<[loaded |-> {}, inserted |-> {}]>>
        /\ clock = 1
  /\ pc = [h \in Handlers |-> "idle"]
  /\ req = [h \in Handlers |-> NoRequest]
  /\ loc = [h \in Handlers |-> NoLocals]
  /\ resp = [h \in Handlers |-> NoResponse]
  /\ overlap = {}
  /\ calls = 0
  /\ users = NoUsers /\ otps = NoOtps /\ institutions = NoInstitutions
  /\ tokens = {} /\ verified = {}
  /\ probe = NoProbe

NextRetake ==
  \/ \E h \in Handlers, z \in QuizIds, s \in StudentIds :
        startQuizAttempt_findQuiz(h, z, s)
  \/ \E h \in Handlers : startQuizAttempt_findExisting(h)
  \/ \E h \in Handlers : startQuizAttempt_create(h)
  \/ \E h \in Handlers, a \in AttemptIds, s \in StudentIds :
        submitQuizAttempt_findAttempt(h, a, [q \in PayloadKeys |-> "a"], s)
  \/ \E h \in Handlers : submitQuizAttempt_update(h)
  \/ Tick

SpecRetake == InitRetake /\ [][NextRetake]_vars

(* ------------------------------ claims -------------------------------- *)
\* the step is handler h making a new call (its first step)
CallStep(h) == calls' = calls + 1 /\ req'[h].seq = calls'

\* the attempts of a (quiz, student) pair that are in progress
ActiveAttempts(z, s) ==
  {i \in 1..Len(attempts) :
     attempts[i].quizId = z /\ attempts[i].studentId = s /\ ~attempts[i].completed}

\* the sum of the points of the questions with the given ids
RECURSIVE SumOfPoints(_)
SumOfPoints(ids) ==
  IF ids = {} THEN 0
  ELSE LET id == CHOOSE x \in ids : TRUE
       IN  questions[id].points + SumOfPoints(ids \ {id})

\* C1: in every reachable state at most one attempt with completed = false
\* exists for a (quizId, studentId) pair, whatever the interleaving of Starts.
C1_OneActiveAttemptPerPair ==
  \A z \in QuizIds, s \in StudentIds : Cardinality(ActiveAttempts(z, s)) <= 1

\* C2: at-most-once scoring: once an attempt is completed no Submit succeeds
\* on it any more and its score never changes.
C2_AtMostOnceScoring ==
  [][\A i \in 1..Len(attempts) :
        attempts[i].completed =>
          /\ attempts'[i].score = attempts[i].score
          /\ ~\E h \in Handlers :
                /\ pc[h] = "submit_update" /\ pc'[h] = "done"
                /\ req[h].attemptId = i /\ resp'[h].status = StatusOk]_vars

\* the Start calls of the handlers in S have ended, were made for the same
\* pair while no attempt of the pair was in progress, overlapped pairwise, and
\* found the quiz and found it inside its window
ConcurrentStarts(S) ==
  /\ Cardinality(S) >= 2
  /\ \A h \in S :
        /\ pc[h] = "done" /\ req[h].op = "start" /\ ~req[h].activeAtCall
        /\ resp[h] \notin {QuizNotFoundError, QuizNotActiveError}
  /\ \A h, g \in S :
        /\ req[h].quizId = req[g].quizId /\ req[h].studentId = req[g].studentId
        /\ h # g => {h, g} \in overlap

\* C3: of N concurrent Starts of one pair on an existing quiz inside its
\* window, with no attempt in progress before, exactly one succeeds and the
\* other N-1 fail with Conflict.
C3_ExactlyOneStartSucceeds ==
  \A S \in SUBSET Handlers :
     ConcurrentStarts(S) =>
       /\ Cardinality({h \in S : resp[h].status = StatusOk}) = 1
       /\ \A h \in S : resp[h].status # StatusOk => resp[h].status = StatusConflict

\* C4: a Submit by the owner on an attempt that is already completed fails
\* with Conflict and writes nothing to the attempt.
C4_SubmitOnCompletedIsConflict ==
  [][\A h \in Handlers :
        (/\ CallStep(h) /\ req'[h].op = "submit"
         /\ req'[h].attemptId \in 1..Len(attempts)
         /\ attempts[req'[h].attemptId].studentId = req'[h].studentId
         /\ attempts[req'[h].attemptId].completed)
        => /\ resp'[h].status = StatusConflict
           /\ pc'[h] = "done"
           /\ attempts' = attempts]_vars

\* C5 as stated: maxScore is, at all times, the sum of the points of the
\* questions the quiz had at the moment the attempt row was inserted.
C5_MaxScoreIsSumAtInsert ==
  \A i \in 1..Len(attempts) :
     attempts[i].maxScore = SumOfPoints(snapshot[i].inserted)

\* C5 amended: maxScore is, at all times (so after any addQuestion, Submit,
\* scheduleQuiz or updateQuiz), the sum of the points of the questions that
\* Start's read of the quiz returned; that read precedes the insert.
C5_MaxScoreIsSumAtRead ==
  \A i \in 1..Len(attempts) :
     attempts[i].maxScore = SumOfPoints(snapshot[i].loaded)

\* a completed attempt of a rescheduled quiz whose only question is worth
\* more than one point
C5_Witness ==
  \E i \in 1..Len(attempts) :
     /\ attempts[i].completed /\ attempts[i].maxScore > 1
     /\ quizzes[attempts[i].quizId] # InitQuizzes[attempts[i].quizId]

\* C6: a completed attempt records an answer only for questions the quiz had
\* when the attempt was created, and its score is the points of those of
\* them that were answered right.
C6_ScoredOverSnapshot ==
  \A i \in 1..Len(attempts) :
     attempts[i].completed =>
       /\ DOMAIN attempts[i].answers \subseteq snapshot[i].inserted
       /\ attempts[i].score =
            SumOfPoints({id \in snapshot[i].inserted \cap DOMAIN attempts[i].answers :
                           attempts[i].answers[id] = questions[id].answer})

\* C7: a Start that finds the quiz goes on exactly when startTime <= now <=
\* endTime, and otherwise ends with InvalidState (400, 'Quiz is not currently
\* active') without an insert; every insert is by a Start whose now was
\* inside the window of the quiz it read.
C7_StartOnlyInsideWindow ==
  [][/\ \A h \in Handlers :
           (CallStep(h) /\ req'[h].op = "start" /\ quizzes[req'[h].quizId].exists)
           => LET quiz == quizzes[req'[h].quizId]
              IN  IF quiz.startTime <= clock /\ clock <= quiz.endTime
                  THEN pc'[h] = "start_findExisting" /\ loc'[h].now = clock
                  ELSE /\ resp'[h].status = StatusBadRequest
                       /\ resp'[h].message = "Quiz is not currently active"
                       /\ pc'[h] = "done"
                       /\ attempts' = attempts
     /\ Len(attempts') > Len(attempts) =>
           \E h \in Handlers :
              /\ pc[h] = "start_create" /\ pc'[h] = "done"
              /\ loc[h].quiz.startTime <= loc[h].now
              /\ loc[h].now <= loc[h].quiz.endTime]_vars

\* a Start has succeeded whose now was the startTime of the quiz
C7_Witness ==
  \E h \in Handlers :
     /\ pc[h] = "done" /\ req[h].op = "start" /\ resp[h].status = StatusOk
     /\ resp[h].body.quiz.startTime < resp[h].body.quiz.endTime
     /\ attempts[resp[h].body.attemptId].startedAt = resp[h].body.quiz.startTime

\* C8: a Start that finds an attempt of its pair in progress fails with
\* Conflict, a status other than that of a Start outside the window and of a
\* missing quiz, and inserts nothing.
C8_ActiveAttemptIsConflict ==
  [][\A h \in Handlers :
        (/\ pc[h] = "start_findExisting" /\ pc'[h] # pc[h]
         /\ ActiveAttempts(req[h].quizId, req[h].studentId) # {})
        => /\ resp'[h].status = StatusConflict
           /\ resp'[h].status \notin {QuizNotActiveError.status, QuizNotFoundError.status}
           /\ pc'[h] = "done"
           /\ attempts' = attempts]_vars

\* C9: the quiz view of a successful Start has one entry per question that
\* Start read, each with exactly the fields id, text, options, difficulty and
\* points of that question, and so without its answer.
C9_ViewHasNoAnswer ==
  \A h \in Handlers :
     (pc[h] = "done" /\ req[h].op = "start" /\ resp[h].status = StatusOk)
     => LET view == resp[h].body.quiz.questions
        IN  /\ Len(view) = Cardinality(snapshot[resp[h].body.attemptId].loaded)
            /\ {view[k].id : k \in DOMAIN view}
                 = snapshot[resp[h].body.attemptId].loaded
            /\ \A k \in DOMAIN view :
                  /\ DOMAIN view[k] = {"id", "text", "options", "difficulty", "points"}
                  /\ view[k].text = questions[view[k].id].text
                  /\ view[k].options = questions[view[k].id].options
                  /\ view[k].difficulty = questions[view[k].id].difficulty
                  /\ view[k].points = questions[view[k].id].points

\* a Start has succeeded on a quiz that has a question
C9_Witness ==
  \E h \in Handlers :
     /\ pc[h] = "done" /\ req[h].op = "start" /\ resp[h].status = StatusOk
     /\ Len(resp[h].body.quiz.questions) > 0

\* C10: a Submit on a missing attempt ends with NotFound; on an existing
\* attempt of another student it ends with Forbidden, completed or not; only
\* the owner reaches the completed check; none of the three writes the
\* attempt.
C10_NonOwnerForbidden ==
  [][\A h \in Handlers :
        (CallStep(h) /\ req'[h].op = "submit")
        => LET a == req'[h].attemptId
           IN  IF a \notin 1..Len(attempts)
               THEN /\ resp'[h].status = StatusNotFound
                    /\ pc'[h] = "done" /\ attempts' = attempts
               ELSE IF attempts[a].studentId # req'[h].studentId
               THEN /\ resp'[h].status = StatusForbidden
                    /\ pc'[h] = "done" /\ attempts' = attempts
               ELSE IF attempts[a].completed
               THEN /\ resp'[h].status \notin {StatusOk, StatusNotFound, StatusForbidden}
                    /\ pc'[h] = "done" /\ attempts' = attempts
               ELSE pc'[h] = "submit_update" /\ attempts' = attempts]_vars

\* another student's Submit on a completed attempt has been answered Forbidden
C10_Witness ==
  \E h \in Handlers :
     /\ pc[h] = "done" /\ req[h].op = "submit" /\ req[h].completedAtCall
     /\ resp[h].status = StatusForbidden

\* C12: the percentage a successful Submit returns is a number, and it is 0
\* when the attempt's maxScore is 0; never the NaN or Infinity of a division
\* by zero.
C12_PercentageDefined ==
  \A h \in Handlers :
     (pc[h] = "done" /\ req[h].op = "submit" /\ resp[h].status = StatusOk)
     => /\ resp[h].body.percentage.kind = "number"
        /\ resp[h].body.maxScore = 0 => resp[h].body.percentage.value = 0

\* C20: every stored quiz has startTime < endTime, after any scheduleQuiz and
\* updateQuiz.
C20_StartBeforeEnd ==
  \A z \in QuizIds : quizzes[z].exists => quizzes[z].startTime < quizzes[z].endTime

\* the questions of a quiz to which the answers object gives the right answer
Matches(quizId, answers) ==
  {id \in QuestionIdsOf(quizId) :
     id \in DOMAIN answers /\ answers[id] = questions[id].answer}

\* C11: a Submit that passes its checks scores the sum of the points of
\* exactly the quiz's questions whose submitted answer equals the question's
\* answer (an absent answer matches nothing), records per question of the
\* quiz the submitted answer and nothing for other keys, and the update stores
\* that score and those answers and returns the score, the attempt's maxScore
\* and, when maxScore > 0, 100 * score / maxScore rounded to the nearest
\* integer, halves up.
C11_ScoreIsSumOfMatches ==
  [][\A h \in Handlers :
        /\ (CallStep(h) /\ pc'[h] = "submit_update")
           => LET quizId == attempts[req'[h].attemptId].quizId
                  ans    == req'[h].answers
              IN  /\ loc'[h].score = SumOfPoints(Matches(quizId, ans))
                  /\ DOMAIN loc'[h].questionAnswers = QuestionIdsOf(quizId)
                  /\ \A id \in QuestionIdsOf(quizId) :
                        /\ id \in DOMAIN ans
                             => loc'[h].questionAnswers[id] = ans[id]
                        /\ loc'[h].questionAnswers[id] = Undefined
                             => id \notin Matches(quizId, ans)
        /\ (pc[h] = "submit_update" /\ pc'[h] = "done")
           => LET a    == attempts'[req[h].attemptId]
                  body == resp'[h].body
              IN  /\ a.score = loc[h].score
                  /\ a.answers = loc[h].questionAnswers
                  /\ resp'[h].status = StatusOk
                  /\ body.score = a.score /\ body.maxScore = a.maxScore
                  /\ a.maxScore > 0 =>
                       /\ body.percentage.kind = "number"
                       /\ LET d == body.percentage.value * a.maxScore - 100 * a.score
                          IN  -a.maxScore < 2 * d /\ 2 * d <= a.maxScore]_vars

\* the example of the claim: questions worth 1 and 2 points, the first
\* answered right and the second wrong, an unknown key in the answers object
\* and an answer that differs from the right one in letter case only
C11_Witness ==
  \E h \in Handlers :
     /\ pc[h] = "done" /\ req[h].op = "submit" /\ resp[h].status = StatusOk
     /\ resp[h].body.score = 1 /\ resp[h].body.maxScore = 3
     /\ resp[h].body.percentage = [kind |-> "number", value |-> 33]
     /\ Len(questions) = 2 /\ questions[1].points = 1 /\ questions[2].points = 2
     /\ questions[2].answer = "a"
     /\ attempts[resp[h].body.attemptId].answers[2] = "A"

\* C13: canAccessInstitution is true for every SUPER_ADMIN and
\* GLOBAL_CONTENT_CREATOR; for ADMIN, TEACHER and STUDENT it is true exactly
\* when the user's institutionId is the institution asked for, so a user with
\* no institutionId is denied every institution.
C13_CanAccessInstitution ==
  probe.fn = "canAccessInstitution" =>
     LET u == probe.user
     IN  /\ u.role \in {"SUPER_ADMIN", "GLOBAL_CONTENT_CREATOR"} => probe.result
         /\ u.role \in {"ADMIN", "TEACHER", "STUDENT"} =>
              (probe.result <=> u.institutionId = probe.institutionId)
         /\ (u.role \in {"ADMIN", "TEACHER", "STUDENT"}
             /\ u.institutionId = NoInstitution) => ~probe.result

\* an ADMIN with no institution has been denied an institution
C13_Witness ==
  /\ probe.fn = "canAccessInstitution" /\ probe.user.role = "ADMIN"
  /\ probe.user.institutionId = NoInstitution /\ ~probe.result

\* C14: canManageUsers, by the user's role: SUPER_ADMIN true;
\* GLOBAL_CONTENT_CREATOR true iff the target is not SUPER_ADMIN; ADMIN true
\* iff same institution and the target is ADMIN, TEACHER or STUDENT; TEACHER
\* true iff same institution and the target is STUDENT; STUDENT false.  An
\* ADMIN of another institution is refused whatever the target.
C14_CanManageUsersTable ==
  probe.fn = "canManageUsers" =>
     LET u    == probe.user
         t    == probe.targetUser
         same == u.institutionId = t.institutionId
     IN  probe.result <=>
           CASE u.role = "SUPER_ADMIN" -> TRUE
             [] u.role = "GLOBAL_CONTENT_CREATOR" -> t.role # "SUPER_ADMIN"
             [] u.role = "ADMIN" -> same /\ t.role \in {"ADMIN", "TEACHER", "STUDENT"}
             [] u.role = "TEACHER" -> same /\ t.role = "STUDENT"
             [] u.role = "STUDENT" -> FALSE

\* an ADMIN has been refused a STUDENT of another institution
C14_Witness ==
  /\ probe.fn = "canManageUsers" /\ probe.user.role = "ADMIN"
  /\ probe.targetUser.role = "STUDENT"
  /\ probe.user.institutionId # probe.targetUser.institutionId
  /\ ~probe.result

\* the privilege order SUPER_ADMIN > GLOBAL_CONTENT_CREATOR > ADMIN > TEACHER
\* > STUDENT
Privilege(role) ==
  CASE role = "SUPER_ADMIN" -> 5
    [] role = "GLOBAL_CONTENT_CREATOR" -> 4
    [] role = "ADMIN" -> 3
    [] role = "TEACHER" -> 2
    [] role = "STUDENT" -> 1

\* C15: canManageUsers is never true for a target whose role is strictly more
\* privileged than the user's.
C15_NeverManagesMorePrivileged ==
  (probe.fn = "canManageUsers" /\ probe.result)
  => Privilege(probe.targetUser.role) <= Privilege(probe.user.role)

\* a TEACHER has been refused an ADMIN of the same institution
C15_Witness ==
  /\ probe.fn = "canManageUsers" /\ probe.user.role = "TEACHER"
  /\ probe.targetUser.role = "ADMIN"
  /\ probe.user.institutionId = probe.targetUser.institutionId
  /\ ~probe.result

\* C16: canViewResults is true for the attempt's own student; otherwise for
\* ADMIN and TEACHER true iff the user's institutionId is the attempt's;
\* otherwise true for SUPER_ADMIN and GLOBAL_CONTENT_CREATOR; false for a
\* STUDENT who is not the owner.
C16_CanViewResults ==
  probe.fn = "canViewResults" =>
     LET u == probe.user
         a == probe.quizAttempt
     IN  IF u.id = a.studentId THEN probe.result
         ELSE CASE u.role \in {"ADMIN", "TEACHER"} ->
                     (probe.result <=> u.institutionId = a.institutionId)
                [] u.role \in {"SUPER_ADMIN", "GLOBAL_CONTENT_CREATOR"} -> probe.result
                [] u.role = "STUDENT" -> ~probe.result

\* a STUDENT of the attempt's institution who is not its owner has been refused
C16_Witness ==
  /\ probe.fn = "canViewResults" /\ probe.user.role = "STUDENT"
  /\ probe.user.id # probe.quizAttempt.studentId
  /\ probe.user.institutionId = probe.quizAttempt.institutionId
  /\ ~probe.result

\* C19: the statistics of a quiz's attempts are totalAttempts = their number,
\* averageScore = the mean of their scores rounded halves up, completionRate
\* = 100 * completed / all rounded halves up and within 0..100; with no
\* attempt both are 0.
C19_StatisticsRoundHalfUp ==
  probe.fn = "statisticsOf" =>
     LET as        == probe.attempts
         n         == Len(as)
         completed == Cardinality({i \in 1..n : as[i].completed})
         sum       == reduceScores(as)
         r         == probe.result
     IN  /\ r.totalAttempts = n
         /\ n = 0 => r.averageScore = 0 /\ r.completionRate = 0
         /\ n > 0 => /\ r.averageScore = (2 * sum + n) \div (2 * n)
                     /\ r.completionRate = (200 * completed + n) \div (2 * n)
         /\ r.completionRate \in 0..100

\* the step creates or completes an attempt, and the request that does it is
\* a STUDENT's
OnlyStudentsWrite ==
  attempts' # attempts =>
     \E h \in Handlers :
        /\ pc[h] \in {"start_create", "submit_update"} /\ pc'[h] = "done"
        /\ UserById(req[h].studentId).role = "STUDENT"

\* the step is a Start or Submit request of a user whose role is not STUDENT
NonStudentRequest(h) ==
  /\ CallStep(h) /\ req'[h].op \in {"start", "submit"}
  /\ UserById(req'[h].studentId).role # "STUDENT"

\* C17 as stated: an attempt is created or completed only by a STUDENT's
\* request, and a Start or Submit request of any other role is answered
\* Forbidden with no step of the service taken.
C17_NonStudentForbidden ==
  [][/\ OnlyStudentsWrite
     /\ \A h \in Handlers :
           NonStudentRequest(h) =>
              /\ resp'[h].status = StatusForbidden
              /\ pc'[h] = "done" /\ attempts' = attempts]_vars

\* C17 amended: an attempt is created or completed only by a STUDENT's
\* request, and a Start or Submit request of any other role is answered by
\* the route's guards with no step of the service taken: by the quiz guard
\* (400 with no quizId in the body, 404 for a missing quiz, 403 for a quiz of
\* another institution) or else by the participation guard with 403 'Cannot
\* participate in quizzes'.
C17_NonStudentDenied ==
  [][/\ OnlyStudentsWrite
     /\ \A h \in Handlers :
           NonStudentRequest(h) =>
              /\ resp'[h] \in {QuizIdRequired, GuardQuizNotFound,
                               QuizAccessDenied, CannotParticipate}
              /\ pc'[h] = "done" /\ attempts' = attempts
              /\ loc'[h] = NoLocals]_vars

\* stu1's Start has created an attempt, and then a TEACHER's Start of the
\* same quiz has been refused by the participation guard
C17_Witness ==
  /\ \E i \in DOMAIN attempts :
        attempts[i].studentId = "stu1" /\ attempts[i].quizId = "quizA"
  /\ \E h \in Handlers :
        /\ pc[h] = "done" /\ req[h].op = "start" /\ req[h].quizId = "quizA"
        /\ UserById(req[h].studentId).role = "TEACHER"
        /\ resp[h] = CannotParticipate

\* the attempt as canViewResults is to see it: with the institution of its
\* quiz
AttemptForViewing(a) ==
  [studentId |-> a.studentId,
   institutionId |-> quizInstitutionId(quizzes[a.quizId])]

\* C18: every attempt in a results response satisfies canViewResults for
\* the requester; a STUDENT gets only own attempts and no statistics; an
\* ADMIN or TEACHER gets only attempts of quizzes of the own institution.
C18_ResultsOnlyToViewers ==
  \A h \in Handlers :
     (pc[h] = "done" /\ req[h].op = "results" /\ resp[h].status = StatusOk)
     => LET u    == UserById(req[h].studentId)
            body == resp[h].body
        IN  /\ \A i \in DOMAIN body.attempts :
                  canViewResults(u, AttemptForViewing(body.attempts[i]))
            /\ u.role = "STUDENT" =>
                  /\ "statistics" \notin DOMAIN body
                  /\ \A i \in DOMAIN body.attempts :
                        body.attempts[i].studentId = u.id
            /\ u.role \in {"ADMIN", "TEACHER"} =>
                  \A i \in DOMAIN body.attempts :
                     quizInstitutionId(quizzes[body.attempts[i].quizId])
                       = u.institutionId

\* the operations of the quiz router that act on the quiz of the path
QuizScopedOps ==
  {"start", "results", "getQuiz", "getQuestions", "addQuestion", "schedule",
   "update", "delete"}

\* C21: tenant isolation: every quiz-scoped operation that succeeds for an
\* ADMIN, TEACHER or STUDENT has acted on a quiz whose effective institution
\* is the user's institution.
C21_TenantIsolation ==
  \A h \in Handlers :
     (/\ pc[h] = "done" /\ req[h].op \in QuizScopedOps
      /\ resp[h].status \in {StatusOk, StatusCreated}
      /\ UserById(req[h].studentId).role \in {"ADMIN", "TEACHER", "STUDENT"})
     => quizInstitutionId(RouteQuizzes[req[h].quizId])
          = UserById(req[h].studentId).institutionId

\* the fields of an attempt that Submit's update does not write
KeptBySubmit(a) == [id |-> a.id, quizId |-> a.quizId, studentId |-> a.studentId,
                    maxScore |-> a.maxScore, startedAt |-> a.startedAt]

\* C22: the update of a Submit writes the targeted attempt only, and of it
\* only answers, score, completed, submittedAt and timeSpent; it is the one
\* write of the call; no step of a Submit writes a quiz or a question; and a
\* Submit that ends with an error has written nothing.
C22_SubmitFrame ==
  [][\A h \in Handlers :
        /\ (pc[h] = "submit_update" /\ pc'[h] = "done")
           => /\ resp'[h].status = StatusOk
              /\ Len(attempts') = Len(attempts)
              /\ \A i \in DOMAIN attempts :
                    IF i = req[h].attemptId
                    THEN /\ KeptBySubmit(attempts'[i]) = KeptBySubmit(attempts[i])
                         /\ attempts'[i].completed
                         /\ attempts'[i].score = loc[h].score
                         /\ attempts'[i].answers = loc[h].questionAnswers
                    ELSE attempts'[i] = attempts[i]
              /\ quizzes' = quizzes /\ questions' = questions
        /\ (CallStep(h) /\ req'[h].op = "submit")
           => /\ attempts' = attempts /\ quizzes' = quizzes
              /\ questions' = questions
              /\ pc'[h] = "done" => resp'[h].status # StatusOk
              /\ pc'[h] # "done" => pc'[h] = "submit_update"]_vars

\* a Submit has completed the second attempt with a score above 0, and the
\* first attempt is as Start created it
C22_Witness ==
  /\ Len(attempts) = 2
  /\ attempts[1] = newAttempt(1, "quizA", "stu1", 0, 1)
  /\ \E h \in Handlers :
        /\ pc[h] = "done" /\ req[h].op = "submit" /\ req[h].attemptId = 2
        /\ resp[h].status = StatusOk
        /\ attempts[2].completed /\ attempts[2].score > 0

\* the step is the update of a successful Submit of attempt i by its owner
OwnersSubmit(i) ==
  \E h \in Handlers :
     /\ pc[h] = "submit_update" /\ pc'[h] = "done"
     /\ req[h].attemptId = i /\ req[h].studentId = attempts[i].studentId
     /\ resp'[h].status = StatusOk

C24_ApprovalGate ==
  [][LET call   == req'[RouteHandler]
         answer == resp'[RouteHandler]
     IN  /\ ( /\ call.op \in {"login", "getProfile", "updateProfile",
                              "approveInstitutionUser"}
              /\ call.studentId # ""
              /\ ~users[call.studentId].approved )
            => answer.status = StatusForbidden
         /\ ( /\ call.op = "signup"
              /\ answer.status = StatusCreated
              /\ users'[call.target].role # "STUDENT" )
            => ~users'[call.target].approved
         /\ \A u \in UserIds :
               (users[u].exists /\ ~users[u].approved /\ users'[u].approved)
               => /\ call.op = "approveInstitutionUser"
                  /\ call.studentId # u
                  /\ users[call.studentId].approved]_vars

\* u2 signed up as an ADMIN, was approved, logged in and was revoked: its
\* next request with the token is answered 403
C24_Witness ==
  /\ users["u2"].exists /\ users["u2"].role = "ADMIN"
  /\ ~users["u2"].approved
  /\ "u2" \in tokens
  /\ req[RouteHandler].op = "getProfile"
  /\ req[RouteHandler].studentId = "u2"
  /\ resp[RouteHandler].status = StatusForbidden

\* C26: updateProfile leaves the caller's role, approved, phoneNumber and
\* institutionId as they were.
C26_ProfileFrame ==
  [][req'[RouteHandler].op = "updateProfile"
     => LET u == req'[RouteHandler].studentId
        IN  /\ users'[u].role = users[u].role
            /\ users'[u].approved = users[u].approved
            /\ users'[u].phoneNumber = users[u].phoneNumber
            /\ users'[u].institutionId = users[u].institutionId]_vars

\* C30: a user's stored password changes only in a resetPassword for the
\* user's phone number whose OTP has been verified since it was last sent, or
\* in an updateProfile of the user itself.
C30_PasswordChange ==
  [][\A u \in UserIds :
        users'[u].password # users[u].password
        => LET call == req'[RouteHandler]
           IN  \/ /\ call.op = "resetPassword"
                  /\ call.target = u
                  /\ users[u].phoneNumber \in verified
               \/ /\ call.op = "updateProfile"
                  /\ call.studentId = u]_vars

\* C27: an institution's approved flag goes from false to true only in an
\* approveInstitution request of a SUPER_ADMIN; createInstitution stores
\* approved = false; updateInstitution leaves approved and adminId as they
\* were, whatever its body carries.
C27_InstitutionApproval ==
  [][LET call   == req'[RouteHandler]
         answer == resp'[RouteHandler]
     IN  /\ \A i \in InstitutionIds :
               (~institutions[i].approved /\ institutions'[i].approved)
               => /\ call.op = "approveInstitution"
                  /\ UserById(call.studentId).role = "SUPER_ADMIN"
         /\ (call.op = "createInstitution" /\ answer.status = StatusCreated)
            => ~institutions'[call.target].approved
         /\ call.op = "updateInstitution"
            => \A i \in InstitutionIds :
                  /\ institutions'[i].approved = institutions[i].approved
                  /\ institutions'[i].adminId = institutions[i].adminId]_vars

\* C25: every attempt in the table has 0 <= score <= maxScore, so that the
\* percentage of its score lies between 0 and 100.
C25_ScoreWithinMaxScore ==
  \A i \in DOMAIN attempts :
     /\ 0 <= attempts[i].score
     /\ attempts[i].score <= attempts[i].maxScore

\* the questions a response body carries
QuestionsSent(body) ==
  IF "questions" \in DOMAIN body THEN body.questions
  ELSE IF "quiz" \in DOMAIN body THEN body.quiz.questions
  ELSE <<>>

\* C28: answer confidentiality: no response to a Start, a get quiz by id or a
\* get quiz questions request of a STUDENT carries the answer of a question.
C28_AnswerConfidentiality ==
  \A h \in Handlers :
     ( /\ pc[h] = "done"
       /\ req[h].op \in {"start", "getQuiz", "getQuestions"}
       /\ UserById(req[h].studentId).role = "STUDENT"
       /\ resp[h].status \in {StatusOk, StatusCreated} )
     => \A i \in DOMAIN QuestionsSent(resp[h].body) :
           "answer" \notin DOMAIN QuestionsSent(resp[h].body)[i]

\* an attempt of the pair with completed = false is in the table
InProgressOf(quizId, studentId) ==
  \E i \in DOMAIN attempts :
     /\ attempts[i].quizId = quizId
     /\ attempts[i].studentId = studentId
     /\ ~attempts[i].completed

====
